---- MODULE Spec2Model ----
(***************************************************************************)
(* Model of the cache-aware evaluation pipeline of checkmate-factbench:    *)
(* useEvaluationRun.run (src/hooks/useEvaluationRun.ts), the bounded task  *)
(* scheduler promisePool and evaluateExample (src/lib/evaluate.ts), the    *)
(* label and confusion-matrix helpers (src/lib/labels, bundled at the end  *)
(* of evaluate.ts) and the cache store (src/lib/cache.ts).                 *)
(*                                                                         *)
(* Conventions.  JavaScript strings that the code inspects character by    *)
(* character (model ids, provider texts) are sequences of one-character    *)
(* strings.  Array indices are 1-based here and 0-based in the source.     *)
(* One action is one synchronous block of the single-threaded event loop:  *)
(* the code between two awaits that other callbacks can interleave with.   *)
(***************************************************************************)
EXTENDS Integers, Sequences, FiniteSets, TLC

\* ------------------------------------------------------------------ bounds
\* largest --limit and largest --concurrency given to a run
MaxExamples == 2
MaxConcurrency == 2
\* the CLI is run, and then run once more on the cache files the first run left
RunNumbers == {1, 2}
\* most lines of a cache file given to loadModelCache on its own
MaxLines == 3
\* most recordPrediction calls made on one matrix on its own
MaxRecords == 3
\* most words of a text given to normalizePredictedLabel on its own
MaxWords == 2
\* tasks handed to the scheduler when it is called on its own
MaxTasks == 3

\* ------------------------------------------------------- string helpers
Whitespace == {" ", "\t", "\n"}

LowerLetters == <<"a","b","c","d","e","f","g","h","i","j","k","l","m",
                  "n","o","p","q","r","s","t","u","v","w","x","y","z">>
UpperLetters == <<"A","B","C","D","E","F","G","H","I","J","K","L","M",
                  "N","O","P","Q","R","S","T","U","V","W","X","Y","Z">>
Digits == {"0","1","2","3","4","5","6","7","8","9"}

Range(s) == {s[k] : k \in DOMAIN s}

UpperChar(c) ==
  IF \E k \in DOMAIN LowerLetters : LowerLetters[k] = c
  THEN UpperLetters[CHOOSE k \in DOMAIN LowerLetters : LowerLetters[k] = c]
  ELSE c

\* String.prototype.toUpperCase
ToUpperCase(s) == [k \in DOMAIN s |-> UpperChar(s[k])]

\* String.prototype.trim
RECURSIVE TrimLeft(_)
TrimLeft(s) == IF s # <<>> /\ Head(s) \in Whitespace THEN TrimLeft(Tail(s)) ELSE s

RECURSIVE TrimRight(_)
TrimRight(s) ==
  IF s # <<>> /\ s[Len(s)] \in Whitespace THEN TrimRight(SubSeq(s, 1, Len(s) - 1)) ELSE s

Trim(s) == TrimRight(TrimLeft(s))

\* String.prototype.includes
Includes(s, sub) ==
  \E k \in 1..(Len(s) - Len(sub) + 1) : SubSeq(s, k, k + Len(sub) - 1) = sub

\* ----------------------------------------------------------------- labels
FEVER_LABELS == <<"SUPPORTS", "REFUTES", "NOT ENOUGH INFO">>
FeverLabel == Range(FEVER_LABELS)
PredictedLabel == FeverLabel \cup {"INVALID"}

TxtSUPPORTS == <<"S","U","P","P","O","R","T","S">>
TxtREFUTES == <<"R","E","F","U","T","E","S">>
TxtNEI == <<"N","O","T"," ","E","N","O","U","G","H"," ","I","N","F","O">>
TxtNEIUnderscore == <<"N","O","T","_","E","N","O","U","G","H","_","I","N","F","O">>
TxtNEIJoined == <<"N","O","T","E","N","O","U","G","H","I","N","F","O">>
TxtNEIShort == <<"N","E","I">>
TxtSUPPORTED == <<"S","U","P","P","O","R","T","E","D">>
TxtREFUTED == <<"R","E","F","U","T","E","D">>

isFeverLabel(t) == t \in {TxtSUPPORTS, TxtREFUTES, TxtNEI}

LabelOfText(t) ==
  CASE t = TxtSUPPORTS -> "SUPPORTS"
    [] t = TxtREFUTES -> "REFUTES"
    [] t = TxtNEI -> "NOT ENOUGH INFO"

normalizePredictedLabelVariantsFirst(raw) ==
  LET t == Trim(raw)
      u == ToUpperCase(t)
  IN IF isFeverLabel(t) THEN LabelOfText(t)
     ELSE IF u \in {TxtNEIShort, TxtNEIUnderscore, TxtNEIJoined} THEN "NOT ENOUGH INFO"
     ELSE IF Includes(u, TxtNEI) \/ Includes(u, TxtNEIUnderscore) THEN "NOT ENOUGH INFO"
     ELSE IF Includes(u, TxtSUPPORTED) THEN "SUPPORTS"
     ELSE IF Includes(u, TxtREFUTED) THEN "REFUTES"
     ELSE IF Includes(u, TxtSUPPORTS) THEN "SUPPORTS"
     ELSE IF Includes(u, TxtREFUTES) THEN "REFUTES"
     ELSE "INVALID"

normalizePredictedLabel(raw) ==
  LET t == Trim(raw)
      u == ToUpperCase(t)
  IN IF isFeverLabel(t) THEN LabelOfText(t)
     ELSE IF u \in {TxtNEIShort, TxtNEIUnderscore, TxtNEIJoined} THEN "NOT ENOUGH INFO"
     ELSE IF Includes(u, TxtNEI) \/ Includes(u, TxtNEIUnderscore) THEN "NOT ENOUGH INFO"
     ELSE IF Includes(u, TxtSUPPORTS) THEN "SUPPORTS"
     ELSE IF Includes(u, TxtREFUTES) THEN "REFUTES"
     ELSE IF Includes(u, TxtSUPPORTED) THEN "SUPPORTS"
     ELSE IF Includes(u, TxtREFUTED) THEN "REFUTES"
     ELSE "INVALID"

\* ------------------------------------------------------- confusion matrix
createConfusionMatrix ==
  [cells |-> [g \in FeverLabel |-> [p \in FeverLabel |-> 0]], invalid |-> 0]

recordPredictionDropInvalid(cm, gold, pred) ==
  IF pred = "INVALID" THEN cm
  ELSE [cm EXCEPT !.cells[gold][pred] = @ + 1]

recordPrediction(cm, gold, pred) ==
  IF pred = "INVALID" THEN [cm EXCEPT !.invalid = @ + 1]
  ELSE [cm EXCEPT !.cells[gold][pred] = @ + 1]

RECURSIVE SumSeq(_)
SumSeq(s) == IF s = <<>> THEN 0 ELSE Head(s) + SumSeq(Tail(s))

sumConfusionMatrixCellsOnly(cm) ==
  SumSeq([k \in 1..9 |->
      cm.cells[FEVER_LABELS[((k - 1) \div 3) + 1]][FEVER_LABELS[((k - 1) % 3) + 1]]])

sumConfusionMatrix(cm) ==
  cm.invalid
  + SumSeq([k \in 1..9 |->
      cm.cells[FEVER_LABELS[((k - 1) \div 3) + 1]][FEVER_LABELS[((k - 1) % 3) + 1]]])

correctFromConfusionMatrix(cm) ==
  cm.cells["SUPPORTS"]["SUPPORTS"] + cm.cells["REFUTES"]["REFUTES"]
  + cm.cells["NOT ENOUGH INFO"]["NOT ENOUGH INFO"]

\* --------------------------------------------------------------- examples
\* An example id is a JSON number or a JSON string; s is its decimal or
\* literal text.
NumId(s) == [num |-> TRUE, s |-> s]
StrId(s) == [num |-> FALSE, s |-> s]
NoId == [num |-> FALSE, s |-> "", absent |-> TRUE]

DecimalText == <<"1", "2", "3", "4">>

Row(id, claim, label) == [id |-> id, claim |-> claim, label |-> label]

BlankClaims == {"", " "}

\* Dataset files the run can be pointed at (rows in file order).
DatasetBase ==
  << Row(NumId("1"), "A", "SUPPORTS"),
     Row(NumId("2"), "B", "REFUTES"),
     Row(NumId("3"), "C", "NOT ENOUGH INFO") >>
\* the same ids, the gold label of id 1 edited
DatasetEdited ==
  << Row(NumId("1"), "A", "REFUTES"),
     Row(NumId("2"), "B", "REFUTES"),
     Row(NumId("3"), "C", "NOT ENOUGH INFO") >>
\* a row whose label is not a gold label
DatasetBadLabel ==
  << Row(NumId("1"), "A", "MAYBE"),
     Row(NumId("2"), "B", "REFUTES"),
     Row(NumId("3"), "C", "REFUTES") >>

DatasetFiles == {DatasetBase, DatasetEdited, DatasetBadLabel}

\* loadExamples: the first `limit` rows, each validated; any invalid row
\* among them fails the load, and so does an empty result.
loadExamples(rows, limit) ==
  LET n == IF Len(rows) < limit THEN Len(rows) ELSE limit
      valid(k) == rows[k].label \in FeverLabel /\ rows[k].claim \notin BlankClaims
      ex(k) == [id |-> IF "absent" \in DOMAIN rows[k].id
                       THEN NumId(DecimalText[k]) ELSE rows[k].id,
                claim |-> rows[k].claim,
                label |-> rows[k].label]
  IN IF n = 0 \/ \E k \in 1..n : ~valid(k)
     THEN [ok |-> FALSE, examples |-> <<>>]
     ELSE [ok |-> TRUE, examples |-> [k \in 1..n |-> ex(k)]]

exampleIdToString(id) == id.s

\* sha256Hex(JSON.stringify({id, claim, label})): a collision-free digest of
\* exactly these three fields (a number id and a string id serialise
\* differently).
computeExampleHash(ex) == <<"sha256", ex.id.num, ex.id.s, ex.claim, ex.label>>

\* ------------------------------------------------------------- model ids
ModelSlash == <<"a", "/", "b">>
ModelUnderscore == <<"a", "_", "b">>
\* The --models lists of the runs; the two ids of the second list have the
\* same slug.
ModelLists == {<<ModelSlash>>, <<ModelSlash, ModelUnderscore>>}

SlugSafe(c) ==
  c \in Range(LowerLetters) \cup Range(UpperLetters) \cup Digits \cup {".", "_", "-"}

RECURSIVE DropUnsafe(_)
DropUnsafe(s) == IF s # <<>> /\ ~SlugSafe(Head(s)) THEN DropUnsafe(Tail(s)) ELSE s

\* s.replace(/[^a-zA-Z0-9._-]+/g, "_")
RECURSIVE safeSlug(_)
safeSlug(s) ==
  IF s = <<>> THEN <<>>
  ELSE IF SlugSafe(Head(s)) THEN <<Head(s)>> \o safeSlug(Tail(s))
  ELSE <<"_">> \o safeSlug(DropUnsafe(Tail(s)))

\* getModelCachePath: <cacheRoot>/factbench/<datasetCacheId>/<slug>.jsonl.
\* Every run of the model uses one dataset path, so the slug identifies the
\* file.
getModelCachePath(modelId) == safeSlug(modelId)

CachePaths == UNION {{getModelCachePath(l[k]) : k \in DOMAIN l} : l \in ModelLists}

\* ------------------------------------------------------------ cache store
\* A Map<string, CacheEntry> in insertion order.
MapHas(map, key) == \E k \in DOMAIN map : map[k].key = key
MapGet(map, key) == map[CHOOSE k \in DOMAIN map : map[k].key = key].val
MapSetKeepFirst(map, key, val) ==
  IF MapHas(map, key) THEN map ELSE Append(map, [key |-> key, val |-> val])

MapSet(map, key, val) ==
  IF MapHas(map, key)
  THEN [k \in DOMAIN map |-> IF map[k].key = key THEN [key |-> key, val |-> val] ELSE map[k]]
  ELSE Append(map, [key |-> key, val |-> val])

\* A cache file: whether it exists, and the pieces text.split(/\r?\n/) cuts
\* its content into.  A piece is the JSON text of a value, blank after trim(),
\* or text that JSON.parse rejects.
NoFile == [exists |-> FALSE, lines |-> <<>>]
BlankLine == [kind |-> "blank"]
GarbageLine == [kind |-> "garbage"]
JsonNull == [isNull |-> TRUE]

\* JSON.stringify of a value on one line.  The fields of a cache entry are
\* strings, finite numbers and booleans, which JSON.parse gives back as they
\* were; a field that is undefined is left out, as it is in the records here.
JSONStringify(value) == [kind |-> "json", value |-> value]

\* readFile and writeFile: the outcomes the file system can produce.
ReadOutcomes(file) == IF file.exists THEN {"ok", "EACCES"} ELSE {"ENOENT"}
WriteOutcomes == {"ok", "EACCES"}

\* entry && entry.v === 1 && entry.exampleId
IsLoadable(entry) ==
  /\ entry # JsonNull
  /\ "v" \in DOMAIN entry /\ entry.v = 1
  /\ "exampleId" \in DOMAIN entry /\ entry.exampleId # ""

\* The line loop: blank lines are passed over, a line JSON.parse throws on is
\* caught and warned about, an entry of another version or without an
\* exampleId is passed over, every other entry is set under its exampleId.
RECURSIVE LoadLinesStopAtBadLine(_, _)
LoadLinesStopAtBadLine(lines, map) ==
  IF lines = <<>> THEN map
  ELSE LET line == Head(lines)
       IN IF line.kind = "garbage" THEN map
          ELSE IF line.kind # "json" \/ ~IsLoadable(line.value)
          THEN LoadLinesStopAtBadLine(Tail(lines), map)
          ELSE LoadLinesStopAtBadLine(Tail(lines),
                                      MapSet(map, line.value.exampleId, line.value))

RECURSIVE LoadLines(_, _)
LoadLines(lines, map) ==
  IF lines = <<>> THEN map
  ELSE LET line == Head(lines)
       IN IF line.kind # "json" \/ ~IsLoadable(line.value)
          THEN LoadLines(Tail(lines), map)
          ELSE LoadLines(Tail(lines), MapSet(map, line.value.exampleId, line.value))

loadModelCacheCatchAll(file, readOutcome) ==
  IF readOutcome = "ok"
  THEN [threw |-> FALSE, map |-> LoadLines(file.lines, <<>>)]
  ELSE [threw |-> FALSE, map |-> <<>>]

\* loadModelCache: ENOENT gives the empty map, any other read error is
\* thrown again.
loadModelCache(file, readOutcome) ==
  IF readOutcome = "ok"
  THEN [threw |-> FALSE, map |-> LoadLines(file.lines, <<>>)]
  ELSE IF readOutcome = "ENOENT"
  THEN [threw |-> FALSE, map |-> <<>>]
  ELSE [threw |-> TRUE, map |-> <<>>]

saveModelCacheJoined(file, entries, writeOutcome) ==
  IF writeOutcome = "ok"
  THEN [threw |-> FALSE,
        file |-> [exists |-> TRUE,
                  lines |-> IF Len(entries) > 1 THEN <<GarbageLine>>
                            ELSE [k \in DOMAIN entries |-> JSONStringify(entries[k].val)]]]
  ELSE [threw |-> TRUE, file |-> file]

\* saveModelCache: rows.join("\n") plus a final "\n" when there are rows, so
\* that the content splits into one line per entry, in map order, and a last
\* empty piece.  A failing writeFile is thrown on and leaves the file alone.
saveModelCache(file, entries, writeOutcome) ==
  IF writeOutcome = "ok"
  THEN [threw |-> FALSE,
        file |-> [exists |-> TRUE,
                  lines |-> [k \in DOMAIN entries |-> JSONStringify(entries[k].val)]
                            \o <<BlankLine>>]]
  ELSE [threw |-> TRUE, file |-> file]

\* if (!hit || !hit.item) throw new Error("Cache entry must have a valid item")
cacheHitThrows(hit) == IF "item" \notin DOMAIN hit THEN TRUE ELSE hit.item = JsonNull

cacheHitToItemAsStored(hit) ==
  [f \in DOMAIN hit.item \cup {"exampleHash"} |->
     IF f = "exampleHash" THEN hit.exampleHash ELSE hit.item[f]]

\* { ...hit.item, cached: true, exampleHash: hit.exampleHash, latencyMs: 0 }
cacheHitToItem(hit) ==
  [f \in DOMAIN hit.item \cup {"cached", "exampleHash", "latencyMs"} |->
     CASE f = "cached" -> TRUE
       [] f = "exampleHash" -> hit.exampleHash
       [] f = "latencyMs" -> 0
       [] OTHER -> hit.item[f]]

\* --------------------------------------------------------- provider call
\* The texts the provider answers with, and their characters.
TxtSupportsDot == <<"S", "u", "p", "p", "o", "r", "t", "s", ".">>
ProviderTexts == {"Supports."}
TextChars == [t \in ProviderTexts |-> TxtSupportsDot]
Responses ==
  [kind : {"text"}, text : ProviderTexts] \cup [kind : {"reject"}, message : {"timeout"}]

\* normalizePredictedLabel on the texts the provider returns, computed once
NormalizedTexts == [t \in ProviderTexts |-> normalizePredictedLabel(TextChars[t])]

\* performance.now() - start of a call that went to the provider
Latencies == {12}

\* evaluateExample: the item the task resolves with.  threw marks the two
\* argument checks ahead of the try block, the only way the task rejects.
evaluateExampleRethrow(modelId, ex, response, latencyMs) ==
  IF modelId = <<>> \/ response.kind = "reject" THEN [threw |-> TRUE]
  ELSE LET predictedLabel == NormalizedTexts[response.text]
       IN [threw |-> FALSE,
           item |-> [datasetId |-> ex.id, claim |-> ex.claim, goldLabel |-> ex.label,
                     predictedLabel |-> predictedLabel, rawText |-> response.text,
                     ok |-> predictedLabel = ex.label, latencyMs |-> latencyMs]]

evaluateExample(modelId, ex, response, latencyMs) ==
  IF modelId = <<>> THEN [threw |-> TRUE]
  ELSE IF response.kind = "text"
  THEN LET predictedLabel == NormalizedTexts[response.text]
       IN [threw |-> FALSE,
           item |-> [datasetId |-> ex.id, claim |-> ex.claim, goldLabel |-> ex.label,
                     predictedLabel |-> predictedLabel, rawText |-> response.text,
                     ok |-> predictedLabel = ex.label, latencyMs |-> latencyMs]]
  ELSE [threw |-> FALSE,
        item |-> [datasetId |-> ex.id, claim |-> ex.claim, goldLabel |-> ex.label,
                  predictedLabel |-> "INVALID", rawText |-> "",
                  ok |-> FALSE, latencyMs |-> latencyMs,
                  error |-> response.message]]

\* ------------------------------------------------------------------ state
VARIABLES
  pc,          \* position of run(): "start", "modelCheck", "loadCache", "replay",
               \* "execute", "persist", "finalize", "done", "stopped", "failed"
  runNo,       \* number of the current invocation of the CLI
  args,        \* filePath content, limit, models, concurrency
  cancelled,   \* the effect's cancellation flag
  examples,    \* loadExamples result
  m,           \* position of the current model in args.models
  cacheMap,    \* the map loaded for the current model
  fullItems,   \* per dataset index: the item, or NoItem
  missing,     \* the misses, in dataset order
  cm,          \* the confusion matrix of the current model
  completed,   \* the completed counter of the current model
  replayPos,   \* loop variable of the replay loop
  next,        \* promisePool: next unclaimed task index
  workers,     \* promisePool: per worker the task it awaits, 0 once it returned
  results,     \* promisePool: results array
  poolItems,   \* evaluateModelExamples: items array
  calls,       \* per dataset index: provider invocations for the current model
  events,      \* the progress events of the current model, in emission order
  appState,    \* the hook's AppState (without the per-item display counters)
  files,       \* cache files by path
  trace,       \* type and model of every progress event and cache save of this
               \* run, in order
  issued,      \* number of provider calls this run has issued
  prev,        \* the summary reported by the run that this run repeats (Rerun)
  probe,       \* a helper function applied on its own: its input and its result
  tasks        \* promisePool called on its own: its tasks, in input order

vars == <<pc, runNo, args, cancelled, examples, m, cacheMap, fullItems, missing, cm,
          completed, replayPos, next, workers, results, poolItems, calls, events,
          appState, files, trace, issued, prev, probe, tasks>>

NoItem == [hole |-> TRUE]
NoRun == [done |-> FALSE]
NoProbe == [applied |-> FALSE]

Min(a, b) == IF a < b THEN a ELSE b
Max(a, b) == IF a < b THEN b ELSE a

ArgSets ==
  [file : DatasetFiles,
   limit : 1..MaxExamples,
   models : ModelLists,
   concurrency : 1..MaxConcurrency]

InitAppState == [started |-> FALSE, done |-> FALSE, error |-> "", currentModel |-> <<>>]

modelId == args.models[m]

\* The per-run state as run() finds it.
FreshRun(a) ==
  /\ pc' = "start"
  /\ args' = a
  /\ cancelled' = FALSE
  /\ examples' = <<>>
  /\ m' = 1
  /\ cacheMap' = <<>>
  /\ fullItems' = <<>>
  /\ missing' = <<>>
  /\ cm' = createConfusionMatrix
  /\ completed' = 0
  /\ replayPos' = 1
  /\ next' = 1
  /\ workers' = <<>>
  /\ results' = <<>>
  /\ poolItems' = <<>>
  /\ calls' = <<>>
  /\ events' = <<>>
  /\ appState' = InitAppState
  /\ trace' = <<>>
  /\ issued' = 0

Init ==
  /\ pc = "start"
  /\ runNo = 1
  /\ args \in ArgSets
  /\ cancelled = FALSE
  /\ examples = <<>>
  /\ m = 1
  /\ cacheMap = <<>>
  /\ fullItems = <<>>
  /\ missing = <<>>
  /\ cm = createConfusionMatrix
  /\ completed = 0
  /\ replayPos = 1
  /\ next = 1
  /\ workers = <<>>
  /\ results = <<>>
  /\ poolItems = <<>>
  /\ calls = <<>>
  /\ events = <<>>
  /\ appState = InitAppState
  /\ files = [p \in CachePaths |-> NoFile]
  /\ trace = <<>>
  /\ issued = 0
  /\ prev = NoRun
  /\ probe = NoProbe
  /\ tasks = <<>>

\* run().catch: the error reaches AppState unless the effect was cancelled.
Fail(reason) ==
  /\ pc' = "failed"
  /\ appState' = IF cancelled THEN appState
                 ELSE [appState EXCEPT !.done = TRUE, !.error = reason]

\* onProgress for modelStart and modelItem: ignored once cancelled.
AfterProgress(st, ev) ==
  IF cancelled THEN st
  ELSE [st EXCEPT !.currentModel = ev.modelId]

Tag(type) == [type |-> type, model |-> m]

\* total === 0 ? 0 : a / total, as numerator and denominator
Ratio(a, total) == IF total = 0 THEN <<0, 1>> ELSE <<a, total>>

\* The numbers of a summary, computed from the matrix when the summary is
\* built.
summaryOf(matrix) ==
  LET total == sumConfusionMatrix(matrix)
      correct == correctFromConfusionMatrix(matrix)
      invalid == matrix.invalid
  IN [total |-> total, correct |-> correct, invalid |-> invalid,
      accuracy |-> Ratio(correct, total), invalidRate |-> Ratio(invalid, total)]

\* The matrix an observer finds in the summary an event carries: the summary's
\* confusion field is the object cm of the model's loop iteration, not a copy,
\* so it is read as cm is when it is read.
ConfusionOf(ev) == cm

\* ---------------------------------------------------------------- actions
LoadExamples ==
  /\ pc = "start"
  /\ LET r == loadExamples(args.file, args.limit)
     IN IF ~r.ok
        THEN /\ Fail("input")
             /\ UNCHANGED examples
        ELSE /\ examples' = r.examples
             /\ IF cancelled
                THEN pc' = "stopped" /\ UNCHANGED appState
                ELSE /\ pc' = "modelCheck"
                     /\ appState' = [appState EXCEPT !.started = TRUE]
  /\ UNCHANGED <<runNo, args, cancelled, m, cacheMap, fullItems, missing, cm, completed,
                 replayPos, next, workers, results, poolItems, calls, events, files, trace,
                 issued, prev, probe, tasks>>

ModelCheckIgnoringCancel ==
  /\ pc = "modelCheck"
  /\ IF m > Len(args.models)
     THEN IF cancelled
          THEN pc' = "stopped" /\ UNCHANGED appState
          ELSE pc' = "done" /\ appState' = [appState EXCEPT !.done = TRUE]
     ELSE /\ pc' = "loadCache"
          /\ UNCHANGED appState
  /\ UNCHANGED <<runNo, args, cancelled, examples, m, cacheMap, fullItems, missing, cm,
                 completed, replayPos, next, workers, results, poolItems, calls, events,
                 files, trace, issued, prev, probe, tasks>>

\* Top of the per-model loop, and the code after the loop.
ModelCheck ==
  /\ pc = "modelCheck"
  /\ IF m > Len(args.models)
     THEN IF cancelled
          THEN pc' = "stopped" /\ UNCHANGED appState
          ELSE pc' = "done" /\ appState' = [appState EXCEPT !.done = TRUE]
     ELSE /\ pc' = IF cancelled THEN "stopped" ELSE "loadCache"
          /\ UNCHANGED appState
  /\ UNCHANGED <<runNo, args, cancelled, examples, m, cacheMap, fullItems, missing, cm,
                 completed, replayPos, next, workers, results, poolItems, calls, events,
                 files, trace,
                 issued, prev, probe, tasks>>

IsHitAnyModel(map, exId, exHash, mid) ==
  /\ MapHas(map, exId)
  /\ MapGet(map, exId).exampleHash = exHash

IsHitAnyHash(map, exId, exHash, mid) ==
  /\ MapHas(map, exId)
  /\ MapGet(map, exId).modelId = mid

IsHit(map, exId, exHash, mid) ==
  /\ MapHas(map, exId)
  /\ MapGet(map, exId).exampleHash = exHash
  /\ MapGet(map, exId).modelId = mid

\* The partition loop reaches a hit that cacheHitToItem throws on.
PartitionThrows(map, exs, mid) ==
  \E i \in DOMAIN exs :
    /\ IsHit(map, exampleIdToString(exs[i].id), computeExampleHash(exs[i]), mid)
    /\ cacheHitThrows(MapGet(map, exampleIdToString(exs[i].id)))

\* The partition loop: fullItems and missing for one model.
PartitionItems(map, exs, mid) ==
  [i \in DOMAIN exs |->
     IF IsHit(map, exampleIdToString(exs[i].id), computeExampleHash(exs[i]), mid)
     THEN cacheHitToItem(MapGet(map, exampleIdToString(exs[i].id)))
     ELSE NoItem]

PartitionMissingAll(map, exs, mid) ==
  [i \in DOMAIN exs |->
     [idx |-> i, exHash |-> computeExampleHash(exs[i]),
      exId |-> exampleIdToString(exs[i].id)]]

PartitionMissing(map, exs, mid) ==
  SelectSeq([i \in DOMAIN exs |->
               [idx |-> i, exHash |-> computeExampleHash(exs[i]),
                exId |-> exampleIdToString(exs[i].id)]],
            LAMBDA r : ~IsHit(map, r.exId, r.exHash, mid))

\* loadModelCache, the partition loop, the modelStart event, and the matrix
\* and counter the model's outcomes are folded into.
StartModel(matrix) ==
  /\ pc = "loadCache"
  /\ \E readOutcome \in ReadOutcomes(files[getModelCachePath(modelId)]) :
     LET r == loadModelCache(files[getModelCachePath(modelId)], readOutcome)
         map == r.map
         ev == [type |-> "modelStart", model |-> m, modelId |-> modelId,
                totalExamples |-> Len(examples)]
     IN /\ ~r.threw
        /\ ~PartitionThrows(map, examples, modelId)
        /\ cacheMap' = map
        /\ fullItems' = PartitionItems(map, examples, modelId)
        /\ missing' = PartitionMissing(map, examples, modelId)
        /\ events' = <<ev>>
        /\ trace' = Append(trace, Tag("modelStart"))
        /\ appState' = AfterProgress(appState, ev)
  /\ cm' = matrix
  /\ completed' = 0
  /\ replayPos' = 1
  /\ calls' = [i \in DOMAIN examples |-> 0]
  /\ pc' = "replay"
  /\ UNCHANGED <<runNo, args, cancelled, examples, m, next, workers, results, poolItems,
                 files,
                 issued, prev, probe, tasks>>

LoadCacheSharedMatrix == StartModel(cm)

\* const cm = createConfusionMatrix(): a matrix of its own for every model
LoadCache == StartModel(createConfusionMatrix)

\* loadModelCache throws: run() is left through its catch handler.
LoadCacheFails ==
  /\ pc = "loadCache"
  /\ \E readOutcome \in ReadOutcomes(files[getModelCachePath(modelId)]) :
       loadModelCache(files[getModelCachePath(modelId)], readOutcome).threw
  /\ Fail("cacheRead")
  /\ UNCHANGED <<runNo, args, cancelled, examples, m, cacheMap, fullItems, missing, cm,
                 completed, replayPos, next, workers, results, poolItems, calls, events,
                 files, trace,
                 issued, prev, probe, tasks>>

ItemEventCountBefore(index, count, item, matrix) ==
  [type |-> "modelItem", model |-> m, modelId |-> modelId, index |-> index,
   completed |-> count - 1, totalExamples |-> Len(examples), item |-> item,
   summarySoFar |-> summaryOf(matrix)]

\* The modelItem event of a fold.  total, correct and invalid are copied into
\* the event; its confusion field is a reference to the model's matrix cm.
ItemEvent(index, count, item, matrix) ==
  [type |-> "modelItem", model |-> m, modelId |-> modelId, index |-> index,
   completed |-> count, totalExamples |-> Len(examples), item |-> item,
   summarySoFar |-> summaryOf(matrix)]

RECURSIVE NextHitAfter(_, _)
NextHitAfter(items, i) ==
  IF i >= Len(items) THEN 0
  ELSE IF items[i + 1] # NoItem THEN i + 1
  ELSE NextHitAfter(items, i + 1)

NextHitLast(items, i) ==
  LET hits == {k \in i..Len(items) : items[k] # NoItem}
  IN IF hits = {} THEN 0 ELSE CHOOSE k \in hits : \A j \in hits : j <= k

\* First index at or after i that holds a cache hit, 0 when there is none.
RECURSIVE NextHit(_, _)
NextHit(items, i) ==
  IF i > Len(items) THEN 0
  ELSE IF items[i] # NoItem THEN i
  ELSE NextHit(items, i + 1)

\* One iteration of the replay loop that finds a cached item: fold it and
\* emit its event.
ReplayItem ==
  /\ pc = "replay"
  /\ NextHit(fullItems, replayPos) # 0
  /\ LET i == NextHit(fullItems, replayPos)
         item == fullItems[i]
         matrix == recordPrediction(cm, item.goldLabel, item.predictedLabel)
         ev == ItemEvent(i, completed + 1, item, matrix)
     IN /\ cm' = matrix
        /\ completed' = completed + 1
        /\ events' = Append(events, ev)
        /\ trace' = Append(trace, Tag("modelItem"))
        /\ appState' = AfterProgress(appState, ev)
        /\ replayPos' = i + 1
  /\ UNCHANGED <<pc, runNo, args, cancelled, examples, m, cacheMap, fullItems, missing,
                 next, workers, results, poolItems, calls, files,
                 issued, prev, probe, tasks>>

promisePoolSizeAll(concurrency, n) == Max(1, n)

promisePoolSizeOne(concurrency, n) == 1

\* promisePool: c = Math.max(1, Math.min(concurrency, tasks.length))
promisePoolSize(concurrency, n) == Max(1, Min(concurrency, n))

\* The replay loop runs out of cached items; with misses, evaluateModelExamples
\* builds the tasks and promisePool starts its workers, each claiming its
\* first task and calling the provider.
StartExecute ==
  /\ pc = "replay"
  /\ NextHit(fullItems, replayPos) = 0
  /\ replayPos' = Len(fullItems) + 1
  /\ IF Len(missing) > 0
     THEN LET n == Len(missing)
              c == promisePoolSize(args.concurrency, n)
          IN /\ workers' = [w \in 1..c |-> IF w <= n THEN w ELSE 0]
             /\ next' = c + 1
             /\ results' = [i \in 1..n |-> NoItem]
             /\ poolItems' = [i \in 1..n |-> NoItem]
             /\ calls' = [i \in DOMAIN calls |->
                            IF \E w \in 1..Min(c, n) : missing[w].idx = i
                            THEN calls[i] + 1 ELSE calls[i]]
             /\ issued' = issued + Min(c, n)
             /\ pc' = "execute"
     ELSE /\ pc' = "persist"
          /\ UNCHANGED <<workers, next, results, poolItems, calls, issued>>
  /\ UNCHANGED <<runNo, args, cancelled, examples, m, cacheMap, fullItems, missing, cm,
                 completed, events, appState, files, trace,
                 prev, probe, tasks>>

callbackIndexLocal(localIdx) == localIdx

\* const { idx, exHash } = missing[localIdx]
callbackIndex(localIdx) == missing[localIdx].idx

resultSlotNext(i) == Cardinality({k \in DOMAIN results : results[k] # NoItem}) + 1

\* results[i] = v
resultSlot(i) == i

\* The item after the completion callback filled in cached and exampleHash.
BackFill(item, exHash) ==
  [f \in DOMAIN item \cup {"cached", "exampleHash"} |->
     CASE f = "cached" -> FALSE
       [] f = "exampleHash" -> exHash
       [] OTHER -> item[f]]

poolSettledAny(after) == \E v \in DOMAIN after : after[v] = 0

\* await Promise.all(workers): the pool returns when every worker has returned
poolSettled(after) == \A v \in DOMAIN after : after[v] = 0

\* The provider call awaited by worker w settles.  The worker stores the
\* result, the completion callback folds it and emits its event, and the
\* worker claims the next task index; the pool returns when the last worker
\* has returned.
Complete(w, response, latencyMs) ==
  /\ workers[w] # 0
  /\ LET i == workers[w]
         n == Len(missing)
         r == evaluateExample(modelId, examples[missing[i].idx], response, latencyMs)
         j == next
         after == [workers EXCEPT ![w] = IF ~r.threw /\ j <= n THEN j ELSE 0]
     IN /\ workers' = after
        /\ IF r.threw
           THEN /\ IF pc = "execute"
                   THEN Fail("task")
                   ELSE UNCHANGED <<pc, appState>>
                /\ UNCHANGED <<next, results, poolItems, fullItems, cm, completed, events,
                               trace, calls, issued>>
           ELSE LET idx == callbackIndex(i)
                    item == BackFill(r.item, missing[i].exHash)
                    matrix == recordPrediction(cm, item.goldLabel, item.predictedLabel)
                    ev == ItemEvent(idx, completed + 1, item, matrix)
                IN /\ results' = [results EXCEPT ![resultSlot(i)] = item]
                   /\ poolItems' = [poolItems EXCEPT ![i] = item]
                   /\ fullItems' = [fullItems EXCEPT ![idx] = item]
                   /\ cm' = matrix
                   /\ completed' = completed + 1
                   /\ events' = Append(events, ev)
                   /\ trace' = Append(trace, Tag("modelItem"))
                   /\ appState' = AfterProgress(appState, ev)
                   /\ next' = next + 1
                   /\ calls' = IF j <= n
                               THEN [calls EXCEPT ![missing[j].idx] = @ + 1]
                               ELSE calls
                   /\ issued' = IF j <= n THEN issued + 1 ELSE issued
                   /\ pc' = IF pc = "execute" /\ poolSettled(after)
                            THEN "persist" ELSE pc
  /\ UNCHANGED <<runNo, args, cancelled, examples, m, cacheMap, missing, replayPos, files,
                 prev, probe, tasks>>

\* Any awaited provider call may be the next to settle, either way.
CompleteTask ==
  \E w \in DOMAIN workers, response \in Responses, latencyMs \in Latencies :
    Complete(w, response, latencyMs)

\* The entry the persist loop builds for an item (datasetPath and cachedAtIso
\* are written and never read).
CacheEntry(mid, exId, item) ==
  [v |-> 1, modelId |-> mid, exampleId |-> exId, exampleHash |-> item.exampleHash,
   item |-> [item EXCEPT !.cached = FALSE]]

RECURSIVE PersistEntriesFresh(_, _, _, _)
PersistEntriesFresh(map, exs, items, i) ==
  LET base == IF i = 1 THEN <<>> ELSE map
  IN IF i > Len(exs) THEN base
     ELSE IF items[i] = NoItem THEN PersistEntriesFresh(base, exs, items, i + 1)
     ELSE LET exId == exampleIdToString(exs[i].id)
              entry == CacheEntry(modelId, exId, items[i])
          IN PersistEntriesFresh(MapSet(base, exId, entry), exs, items, i + 1)

RECURSIVE PersistEntriesSkipFailed(_, _, _, _)
PersistEntriesSkipFailed(map, exs, items, i) ==
  IF i > Len(exs) THEN map
  ELSE IF items[i] = NoItem \/ "error" \in DOMAIN items[i]
  THEN PersistEntriesSkipFailed(map, exs, items, i + 1)
  ELSE LET exId == exampleIdToString(exs[i].id)
           entry == CacheEntry(modelId, exId, items[i])
       IN PersistEntriesSkipFailed(MapSet(map, exId, entry), exs, items, i + 1)

\* The persist loop: one entry per dataset index that has an item.
RECURSIVE PersistEntries(_, _, _, _)
PersistEntries(map, exs, items, i) ==
  IF i > Len(exs) THEN map
  ELSE IF items[i] = NoItem THEN PersistEntries(map, exs, items, i + 1)
  ELSE LET exId == exampleIdToString(exs[i].id)
           entry == CacheEntry(modelId, exId, items[i])
       IN PersistEntries(MapSet(map, exId, entry), exs, items, i + 1)

PersistUnlessCancelled ==
  /\ pc = "persist"
  /\ IF cancelled
     THEN /\ pc' = "stopped"
          /\ UNCHANGED <<cacheMap, files, trace>>
     ELSE /\ cacheMap' = PersistEntries(cacheMap, examples, fullItems, 1)
          /\ \E writeOutcome \in WriteOutcomes :
             LET r == saveModelCache(files[getModelCachePath(modelId)], cacheMap',
                                     writeOutcome)
             IN /\ ~r.threw
                /\ files' = [files EXCEPT ![getModelCachePath(modelId)] = r.file]
          /\ trace' = Append(trace, Tag("save"))
          /\ pc' = "finalize"
  /\ UNCHANGED <<runNo, args, cancelled, examples, m, fullItems, missing, cm, completed,
                 replayPos, next, workers, results, poolItems, calls, events, appState,
                 issued, prev, probe, tasks>>

\* Update the cache map with every item and save it once.
Persist ==
  /\ pc = "persist"
  /\ cacheMap' = PersistEntries(cacheMap, examples, fullItems, 1)
  /\ \E writeOutcome \in WriteOutcomes :
     LET r == saveModelCache(files[getModelCachePath(modelId)], cacheMap', writeOutcome)
     IN /\ ~r.threw
        /\ files' = [files EXCEPT ![getModelCachePath(modelId)] = r.file]
  /\ trace' = Append(trace, Tag("save"))
  /\ pc' = "finalize"
  /\ UNCHANGED <<runNo, args, cancelled, examples, m, fullItems, missing, cm, completed,
                 replayPos, next, workers, results, poolItems, calls, events, appState,
                 issued, prev, probe, tasks>>

\* saveModelCache throws: the map was updated, the file is left as it was.
PersistFails ==
  /\ pc = "persist"
  /\ cacheMap' = PersistEntries(cacheMap, examples, fullItems, 1)
  /\ \E writeOutcome \in WriteOutcomes :
       saveModelCache(files[getModelCachePath(modelId)], cacheMap', writeOutcome).threw
  /\ Fail("cacheWrite")
  /\ UNCHANGED <<runNo, args, cancelled, examples, m, fullItems, missing, cm, completed,
                 replayPos, next, workers, results, poolItems, calls, events, files,
                 trace,
                 issued, prev, probe, tasks>>

\* The model's summary and its modelDone event; on to the next model.
Finalize ==
  /\ pc = "finalize"
  /\ events' = Append(events,
       [type |-> "modelDone", model |-> m, modelId |-> modelId,
        summary |-> summaryOf(cm), items |-> fullItems])
  /\ trace' = Append(trace, Tag("modelDone"))
  /\ m' = m + 1
  /\ pc' = "modelCheck"
  /\ UNCHANGED <<runNo, args, cancelled, examples, cacheMap, fullItems, missing, cm,
                 completed, replayPos, next, workers, results, poolItems, calls, appState,
                 files,
                 issued, prev, probe, tasks>>

Terminal == pc \in {"done", "stopped", "failed"}

\* The effect's cleanup function.
Cancel ==
  /\ ~cancelled
  /\ ~Terminal
  /\ cancelled' = TRUE
  /\ UNCHANGED <<pc, runNo, args, examples, m, cacheMap, fullItems, missing, cm, completed,
                 replayPos, next, workers, results, poolItems, calls, events, appState,
                 files, trace,
                 issued, prev, probe, tasks>>

\* The CLI is invoked again with the same --models and --concurrency, on the
\* dataset file as it is then and with any --limit; the cache files are what
\* the last run left.
NewRun ==
  /\ Terminal
  /\ runNo + 1 \in RunNumbers
  /\ runNo' = runNo + 1
  /\ \E a \in ArgSets :
       /\ a.models = args.models
       /\ a.concurrency = args.concurrency
       /\ FreshRun(a)
  /\ UNCHANGED <<files, prev, probe, tasks>>

\* The steps of one invocation.
RunStep ==
  \/ LoadExamples
  \/ ModelCheck
  \/ LoadCache
  \/ LoadCacheFails
  \/ ReplayItem
  \/ StartExecute
  \/ CompleteTask
  \/ Persist
  \/ PersistFails
  \/ Finalize
  \/ Cancel

Next ==
  \/ RunStep
  \/ NewRun

Spec == Init /\ [][Next]_vars

\* A run of one model that reached its end is repeated with the arguments it
\* had, on the cache file it left; prev keeps the summary it reported.
Rerun ==
  /\ pc = "done"
  /\ runNo + 1 \in RunNumbers
  /\ runNo' = runNo + 1
  /\ FreshRun(args)
  /\ prev' = [done |-> TRUE, confusion |-> cm, numbers |-> summaryOf(cm)]
  /\ UNCHANGED <<files, probe, tasks>>

NextRerun ==
  \/ RunStep
  \/ Rerun

InitRerun == Init /\ Len(args.models) = 1

RerunSpec == InitRerun /\ [][NextRerun]_vars

\* The run under the event loop's scheduling: a continuation whose awaited
\* promise has settled is run, so a step of the run that stays possible is
\* taken; every provider call settles.  Nothing forces a cancellation, another
\* run, or a failing read or write.  For the cache load and for the settling
\* of a call, weak fairness is written out as "infinitely often not possible
\* or infinitely often taken", with the condition under which the step is
\* possible written as a state predicate.
LoadCachePossible == pc = "loadCache"
CompleteTaskPossible == \E w \in DOMAIN workers : workers[w] # 0
Fairness ==
  /\ WF_vars(LoadExamples)
  /\ WF_vars(ModelCheck)
  /\ []<>(~LoadCachePossible) \/ []<><<LoadCache>>_vars
  /\ WF_vars(ReplayItem)
  /\ WF_vars(StartExecute)
  /\ []<>(~CompleteTaskPossible) \/ []<><<CompleteTask>>_vars
  /\ WF_vars(Persist)
  /\ WF_vars(Finalize)


\* ------------------------------------------------- the cache store alone
\* loadModelCache and saveModelCache applied to a cache file of any content:
\* lines written by earlier runs, lines of another format version, lines
\* without an exampleId, the JSON value null, text that is not JSON, and
\* blank lines.
SampleItem(ex, response) ==
  BackFill(evaluateExample(ModelSlash, ex, response, 12).item, computeExampleHash(ex))
SampleEntry(ex, response) ==
  CacheEntry(ModelSlash, exampleIdToString(ex.id), SampleItem(ex, response))
EntryFirst == SampleEntry(DatasetBase[1], [kind |-> "text", text |-> "Supports."])
EntryFirstEdited == SampleEntry(DatasetEdited[1], [kind |-> "reject", message |-> "timeout"])
EntrySecond == SampleEntry(DatasetBase[2], [kind |-> "text", text |-> "Supports."])
SampleLines ==
  {JSONStringify(EntryFirst), JSONStringify(EntryFirstEdited), JSONStringify(EntrySecond),
   JSONStringify([EntryFirst EXCEPT !.v = 2]),
   JSONStringify([EntrySecond EXCEPT !.exampleId = ""]),
   JSONStringify(JsonNull), GarbageLine, BlankLine}
CacheFiles ==
  {NoFile} \cup {[exists |-> TRUE, lines |-> l] :
                   l \in UNION {[1..k -> SampleLines] : k \in 0..MaxLines}}
CachePath == getModelCachePath(ModelSlash)

InitCache ==
  /\ pc = "cacheFile"
  /\ runNo = 1
  /\ args = [file |-> DatasetBase, limit |-> 1, models |-> <<ModelSlash>>,
             concurrency |-> 1]
  /\ cancelled = FALSE
  /\ examples = <<>>
  /\ m = 1
  /\ cacheMap = <<>>
  /\ fullItems = <<>>
  /\ missing = <<>>
  /\ cm = createConfusionMatrix
  /\ completed = 0
  /\ replayPos = 1
  /\ next = 1
  /\ workers = <<>>
  /\ results = <<>>
  /\ poolItems = <<>>
  /\ calls = <<>>
  /\ events = <<>>
  /\ appState = InitAppState
  /\ files \in [CachePaths -> CacheFiles]
  /\ trace = <<>>
  /\ issued = 0
  /\ prev = NoRun
  /\ probe = NoProbe
  /\ tasks = <<>>

\* await loadModelCache({ cachePath })
LoadFile ==
  /\ pc = "cacheFile"
  /\ \E readOutcome \in ReadOutcomes(files[CachePath]) :
     LET r == loadModelCache(files[CachePath], readOutcome)
     IN /\ cacheMap' = r.map
        /\ pc' = IF r.threw THEN "cacheFailed" ELSE "cacheLoaded"
  /\ UNCHANGED <<runNo, args, cancelled, examples, m, fullItems, missing, cm, completed,
                 replayPos, next, workers, results, poolItems, calls, events, appState,
                 files, trace, issued, prev, probe, tasks>>

\* await saveModelCache({ cachePath, entries: cacheMap })
SaveFile ==
  /\ pc = "cacheLoaded"
  /\ \E writeOutcome \in WriteOutcomes :
     LET r == saveModelCache(files[CachePath], cacheMap, writeOutcome)
     IN /\ files' = [files EXCEPT ![CachePath] = r.file]
        /\ pc' = IF r.threw THEN "cacheFailed" ELSE "cacheSaved"
  /\ UNCHANGED <<runNo, args, cancelled, examples, m, cacheMap, fullItems, missing, cm,
                 completed, replayPos, next, workers, results, poolItems, calls, events,
                 appState, trace, issued, prev, probe, tasks>>

NextCache ==
  \/ LoadFile
  \/ SaveFile

CacheSpec == InitCache /\ [][NextCache]_vars

\* ------------------------------------------- one run on files found on disk
\* One run of one model on a cache file that exists with lines of any kind:
\* an entry of an earlier run, a version-1 entry with its item missing, an
\* entry of another version, and text that is not JSON.
EntryNoItem ==
  [v |-> EntryFirst.v, modelId |-> EntryFirst.modelId, exampleId |-> EntryFirst.exampleId,
   exampleHash |-> EntryFirst.exampleHash]
FoundLines ==
  {JSONStringify(EntryFirst), JSONStringify(EntryNoItem),
   JSONStringify([EntrySecond EXCEPT !.v = 2]), GarbageLine}
FoundFiles ==
  {[exists |-> TRUE, lines |-> l] : l \in UNION {[1..k -> FoundLines] : k \in 1..2}}

InitFound ==
  /\ pc = "start"
  /\ runNo = 1
  /\ args \in [file : {DatasetBase}, limit : 1..MaxExamples, models : {<<ModelSlash>>},
                concurrency : {1}]
  /\ cancelled = FALSE
  /\ examples = <<>>
  /\ m = 1
  /\ cacheMap = <<>>
  /\ fullItems = <<>>
  /\ missing = <<>>
  /\ cm = createConfusionMatrix
  /\ completed = 0
  /\ replayPos = 1
  /\ next = 1
  /\ workers = <<>>
  /\ results = <<>>
  /\ poolItems = <<>>
  /\ calls = <<>>
  /\ events = <<>>
  /\ appState = InitAppState
  /\ files \in [CachePaths -> FoundFiles]
  /\ trace = <<>>
  /\ issued = 0
  /\ prev = NoRun
  /\ probe = NoProbe
  /\ tasks = <<>>

\* cacheHitToItem throws in the partition loop: run() is left through its
\* catch handler, before the modelStart event.
PartitionFails ==
  /\ pc = "loadCache"
  /\ \E readOutcome \in ReadOutcomes(files[getModelCachePath(modelId)]) :
     LET r == loadModelCache(files[getModelCachePath(modelId)], readOutcome)
     IN /\ ~r.threw
        /\ PartitionThrows(r.map, examples, modelId)
        /\ cacheMap' = r.map
  /\ Fail("cacheEntry")
  /\ UNCHANGED <<runNo, args, cancelled, examples, m, fullItems, missing, cm, completed,
                 replayPos, next, workers, results, poolItems, calls, events, files,
                 trace, issued, prev, probe, tasks>>

NextFound ==
  \/ RunStep
  \/ PartitionFails

FoundSpec == InitFound /\ [][NextFound]_vars

\* ------------------------------------------------- the helpers alone
\* recordPrediction applied to a fresh matrix with any gold and predicted
\* labels, and normalizePredictedLabel applied to texts made of the words the
\* rules look for, in either case, joined with or without a space and padded
\* with white space.
LowerChar(c) ==
  IF \E k \in DOMAIN UpperLetters : UpperLetters[k] = c
  THEN LowerLetters[CHOOSE k \in DOMAIN UpperLetters : UpperLetters[k] = c]
  ELSE c
ToLowerCase(s) == [k \in DOMAIN s |-> LowerChar(s[k])]

Words ==
  {TxtSUPPORTS, TxtREFUTES, TxtNEI, TxtNEIUnderscore, TxtNEIJoined, TxtNEIShort,
   TxtSUPPORTED, TxtREFUTED, <<"m", "a", "y", "b", "e">>}
CasedWords ==
  Words \cup {ToLowerCase(w) : w \in {TxtSUPPORTS, TxtREFUTES, TxtNEI, TxtNEIShort}}
RECURSIVE Phrases(_)
Phrases(n) ==
  IF n = 0 THEN {<<>>}
  ELSE LET shorter == Phrases(n - 1)
       IN shorter \cup {p \o sep \o w :
                          p \in shorter, sep \in {<<>>, <<" ">>}, w \in CasedWords}
RawTexts ==
  {before \o p \o after :
     p \in Phrases(MaxWords), before \in {<<>>, <<" ">>}, after \in {<<>>, <<"\n">>, <<".">>}}

InitHelpers ==
  /\ pc = "helpers"
  /\ runNo = 1
  /\ args = [file |-> DatasetBase, limit |-> 1, models |-> <<ModelSlash>>,
             concurrency |-> 1]
  /\ cancelled = FALSE
  /\ examples = <<>>
  /\ m = 1
  /\ cacheMap = <<>>
  /\ fullItems = <<>>
  /\ missing = <<>>
  /\ cm = createConfusionMatrix
  /\ completed = 0
  /\ replayPos = 1
  /\ next = 1
  /\ workers = <<>>
  /\ results = <<>>
  /\ poolItems = <<>>
  /\ calls = <<>>
  /\ events = <<>>
  /\ appState = InitAppState
  /\ files = [p \in CachePaths |-> NoFile]
  /\ trace = <<>>
  /\ issued = 0
  /\ prev = NoRun
  /\ probe = NoProbe
  /\ tasks = <<>>

\* recordPrediction(cm, gold, pred); events keeps the calls made, in order
RecordPrediction ==
  /\ pc = "helpers"
  /\ ~probe.applied
  /\ completed < MaxRecords
  /\ \E gold \in FeverLabel, pred \in PredictedLabel :
       /\ cm' = recordPrediction(cm, gold, pred)
       /\ events' = Append(events, [gold |-> gold, pred |-> pred])
  /\ completed' = completed + 1
  /\ UNCHANGED <<pc, runNo, args, cancelled, examples, m, cacheMap, fullItems, missing,
                 replayPos, next, workers, results, poolItems, calls, appState,
                 files, trace, issued, prev, probe, tasks>>

\* normalizePredictedLabel(raw)
NormalizeText ==
  /\ pc = "helpers"
  /\ completed = 0
  /\ ~probe.applied
  /\ \E raw \in RawTexts :
       probe' = [applied |-> TRUE, raw |-> raw, label |-> normalizePredictedLabel(raw)]
  /\ UNCHANGED <<pc, runNo, args, cancelled, examples, m, cacheMap, fullItems, missing,
                 cm, completed, replayPos, next, workers, results, poolItems, calls,
                 events, appState, files, trace, issued, prev, tasks>>

NextHelpers ==
  \/ RecordPrediction
  \/ NormalizeText

HelperSpec == InitHelpers /\ [][NextHelpers]_vars

\* ------------------------------------------------------ one run, scheduled
\* One run of the CLI from start to its end, on cache files that are absent
\* or were left by an earlier run.
PriorRunFile ==
  saveModelCache(NoFile, MapSet(<<>>, EntryFirst.exampleId, EntryFirst), "ok").file

InitLive ==
  /\ pc = "start"
  /\ runNo = 1
  /\ args \in ArgSets
  /\ cancelled = FALSE
  /\ examples = <<>>
  /\ m = 1
  /\ cacheMap = <<>>
  /\ fullItems = <<>>
  /\ missing = <<>>
  /\ cm = createConfusionMatrix
  /\ completed = 0
  /\ replayPos = 1
  /\ next = 1
  /\ workers = <<>>
  /\ results = <<>>
  /\ poolItems = <<>>
  /\ calls = <<>>
  /\ events = <<>>
  /\ appState = InitAppState
  /\ files \in [CachePaths -> {NoFile, PriorRunFile}]
  /\ trace = <<>>
  /\ issued = 0
  /\ prev = NoRun
  /\ probe = NoProbe
  /\ tasks = <<>>

LiveSpec == InitLive /\ [][RunStep]_vars /\ Fairness

\* ------------------------------------------------- promisePool on its own
\* promisePool(concurrency, tasks, onItem) called with any limit, zero included,
\* on any list of tasks.  A task either settles (it resolves with its value or
\* rejects, decided when it settles) or is a promise that never settles.
TaskKinds == {"settles", "hangs"}
TaskLists == UNION {[1..n -> TaskKinds] : n \in 0..MaxTasks}
TaskOutcomes == {"resolve", "reject"}

\* the value tasks[i]() resolves with
TaskValue(i) == [of |-> i]

Step(type, index) == [type |-> type, index |-> index]

promisePoolRejectsNever(concurrency) == FALSE

\* if (concurrency < 1) throw new Error("Concurrency must be at least 1")
promisePoolRejects(concurrency) == concurrency < 1

nextAfterClaimStale(nxt) == nxt

\* const i = next++
nextAfterClaim(nxt) == nxt + 1

workerNextUntilFailure(threw, j, n) ==
  IF pc = "poolRejected" \/ threw \/ j > n THEN 0 ELSE j

\* The worker's loop after its await: a rejection leaves the worker, a value
\* takes it to the next claim; if (i >= tasks.length) return
workerNext(threw, j, n) == IF ~threw /\ j <= n THEN j ELSE 0

poolAfterAllSettled(state, threw, after) ==
  IF state # "poolRunning" THEN state
  ELSE IF poolSettled(after) THEN "poolReturned"
  ELSE state

\* await Promise.all(workers); return results: the call rejects with the
\* first rejection of a worker and returns once every worker has returned.
poolAfter(state, threw, after) ==
  IF state # "poolRunning" THEN state
  ELSE IF threw THEN "poolRejected"
  ELSE IF poolSettled(after) THEN "poolReturned"
  ELSE state

InitPool ==
  /\ pc = "pool"
  /\ runNo = 1
  /\ args \in [concurrency : 0..MaxConcurrency]
  /\ cancelled = FALSE
  /\ examples = <<>>
  /\ m = 1
  /\ cacheMap = <<>>
  /\ fullItems = <<>>
  /\ missing = <<>>
  /\ cm = createConfusionMatrix
  /\ completed = 0
  /\ replayPos = 1
  /\ next = 1
  /\ workers = <<>>
  /\ results = <<>>
  /\ poolItems = <<>>
  /\ calls = <<>>
  /\ events = <<>>
  /\ appState = InitAppState
  /\ files = [p \in CachePaths |-> NoFile]
  /\ trace = <<>>
  /\ issued = 0
  /\ prev = NoRun
  /\ probe = NoProbe
  /\ tasks \in TaskLists

\* The call up to its await: the argument check, the results array, and the
\* workers, each running to the await of its first task.  With no task the
\* one worker returns at once and so does the call.
PoolCall ==
  /\ pc = "pool"
  /\ IF promisePoolRejects(args.concurrency)
     THEN /\ pc' = "poolRejected"
          /\ trace' = Append(trace, Step("reject", 0))
          /\ UNCHANGED <<workers, next, results, calls>>
     ELSE LET n == Len(tasks)
              c == promisePoolSize(args.concurrency, n)
              started == Min(c, n)
              after == [w \in 1..c |-> workerNext(FALSE, w, n)]
              state == poolAfter("poolRunning", FALSE, after)
          IN /\ workers' = after
             /\ next' = c + 1
             /\ results' = [i \in 1..n |-> NoItem]
             /\ calls' = [i \in 1..n |-> IF i <= started THEN 1 ELSE 0]
             /\ trace' = trace \o [w \in 1..started |-> Step("start", w)]
                           \o (IF state = "poolReturned"
                               THEN <<Step("return", 0)>> ELSE <<>>)
             /\ pc' = state
  /\ UNCHANGED <<runNo, args, cancelled, examples, m, cacheMap, fullItems, missing, cm,
                 completed, replayPos, poolItems, events, appState, files, issued, prev,
                 probe, tasks>>

\* The task awaited by worker w settles.  A value is stored, handed to onItem,
\* and the worker claims the next index; a rejection ends the worker and, the
\* first time, the call.
Settle(w, outcome) ==
  /\ pc \in {"poolRunning", "poolRejected"}
  /\ workers[w] # 0
  /\ tasks[workers[w]] = "settles"
  /\ LET i == workers[w]
         n == Len(tasks)
         threw == outcome = "reject"
         j == next
         after == [workers EXCEPT ![w] = workerNext(threw, j, n)]
         state == poolAfter(pc, threw, after)
     IN /\ workers' = after
        /\ pc' = state
        /\ IF threw
           THEN /\ trace' = Append(trace, Step("throw", i))
                              \o (IF state # pc THEN <<Step("reject", i)>> ELSE <<>>)
                /\ UNCHANGED <<next, results, events, calls>>
           ELSE /\ results' = [results EXCEPT ![resultSlot(i)] = TaskValue(i)]
                /\ events' = Append(events, [index |-> i, value |-> TaskValue(i)])
                /\ next' = nextAfterClaim(next)
                /\ calls' = IF after[w] # 0
                            THEN [calls EXCEPT ![after[w]] = @ + 1]
                            ELSE calls
                /\ trace' = trace \o <<Step("store", resultSlot(i)), Step("onItem", i)>>
                              \o (IF after[w] # 0
                                  THEN <<Step("start", after[w])>> ELSE <<>>)
                              \o (IF state = "poolReturned"
                                  THEN <<Step("return", 0)>> ELSE <<>>)
  /\ UNCHANGED <<runNo, args, cancelled, examples, m, cacheMap, fullItems, missing, cm,
                 completed, replayPos, poolItems, appState, files, issued, prev, probe,
                 tasks>>

\* Any awaited task that settles may be the next to do so, either way.
TaskSettles ==
  \E w \in DOMAIN workers, outcome \in TaskOutcomes : Settle(w, outcome)

NextPool ==
  \/ PoolCall
  \/ TaskSettles

PoolSpec == InitPool /\ [][NextPool]_vars

\* The pool under the event loop's scheduling: the call runs, and a task that
\* settles does so eventually; a task that hangs never does.
PoolLiveSpec == PoolSpec /\ WF_vars(PoolCall) /\ WF_vars(TaskSettles)

\* ================================================================ claims
\* Helpers of the statements below.
IsItemEvent(e) == e.type = "modelItem"
ItemEventPositions == {k \in DOMAIN events : IsItemEvent(events[k])}
MissIndices == {missing[k].idx : k \in DOMAIN missing}
CellTotal(matrix) ==
  matrix.cells["SUPPORTS"]["SUPPORTS"] + matrix.cells["SUPPORTS"]["REFUTES"]
  + matrix.cells["SUPPORTS"]["NOT ENOUGH INFO"]
  + matrix.cells["REFUTES"]["SUPPORTS"] + matrix.cells["REFUTES"]["REFUTES"]
  + matrix.cells["REFUTES"]["NOT ENOUGH INFO"]
  + matrix.cells["NOT ENOUGH INFO"]["SUPPORTS"] + matrix.cells["NOT ENOUGH INFO"]["REFUTES"]
  + matrix.cells["NOT ENOUGH INFO"]["NOT ENOUGH INFO"]
RECURSIVE SumOver(_, _)
SumOver(f, S) ==
  IF S = {} THEN 0 ELSE LET x == CHOOSE y \in S : TRUE IN f[x] + SumOver(f, S \ {x})
\* The model's pool has been started and has returned.
InModel == pc \in {"replay", "execute", "persist", "finalize"}
AfterExecute == pc \in {"persist", "finalize"}

\* C1: in a model's run the nine cells plus the invalid counter always add up
\* to the number of outcomes folded so far (one modelItem event per fold), and
\* the k-th modelItem event carries completed = k and total = k.
C1_MatrixCountsFolds ==
  /\ CellTotal(cm) + cm.invalid = Cardinality(ItemEventPositions)
  /\ \A k \in ItemEventPositions :
       LET folded == Cardinality({j \in ItemEventPositions : j <= k})
       IN /\ events[k].completed = folded
          /\ events[k].summarySoFar.total = folded

\* C1 witness: a model whose folds came from Replay and from Execute, one
\* counted in a cell and one as invalid.
C1_Witness ==
  /\ pc = "persist"
  /\ cm.invalid > 0
  /\ CellTotal(cm) > 0
  /\ \E p, q \in ItemEventPositions :
       /\ events[p].item.cached
       /\ ~events[q].item.cached

\* C2: the provider is never called for an example served from the cache, at
\* most once for any example, and once the scheduler has returned exactly
\* once for every miss, so the calls of the run number the misses.
C2_CallsAreMisses ==
  InModel =>
    /\ \A i \in DOMAIN fullItems :
         /\ calls[i] <= 1
         /\ (fullItems[i] # NoItem /\ fullItems[i].cached) => calls[i] = 0
         /\ (fullItems[i] # NoItem /\ ~fullItems[i].cached) => calls[i] = 1
    /\ AfterExecute =>
         SumOver(calls, DOMAIN calls)
           = Cardinality({i \in DOMAIN fullItems : ~fullItems[i].cached})

\* C2 witness: a finished model with a cache hit that was not called and a
\* miss that was called.
C2_Witness ==
  /\ pc = "persist"
  /\ \E i, j \in DOMAIN fullItems :
       /\ fullItems[i].cached /\ calls[i] = 0
       /\ ~fullItems[j].cached /\ calls[j] = 1

\* C3: an example is a hit exactly when the loaded map has an entry under its
\* id with the hash of the current example and the id of the current model;
\* every other example is queued, and no served or computed item is stale.
StoredFor(i) ==
  {k \in DOMAIN cacheMap : cacheMap[k].key = exampleIdToString(examples[i].id)}
C3_HitIffHashAndModel ==
  pc \in {"replay", "execute", "persist"} =>
    \A i \in DOMAIN examples :
      /\ (i \notin MissIndices) <=>
           \E k \in StoredFor(i) :
             /\ cacheMap[k].val.exampleHash = computeExampleHash(examples[i])
             /\ cacheMap[k].val.modelId = modelId
      /\ fullItems[i] # NoItem =>
           /\ fullItems[i].goldLabel = examples[i].label
           /\ fullItems[i].claim = examples[i].claim
           /\ fullItems[i].cached <=> i \notin MissIndices

\* C3 witness: the map holds an entry with a stale hash under one example's id
\* and an entry of another model with the current hash under another's, and
\* both examples were recomputed.
C3_Witness ==
  /\ pc = "persist"
  /\ \E i, j \in DOMAIN examples :
       /\ \E k \in StoredFor(i) :
            cacheMap[k].val.exampleHash # computeExampleHash(examples[i])
       /\ \E k \in StoredFor(j) :
            /\ cacheMap[k].val.exampleHash = computeExampleHash(examples[j])
            /\ cacheMap[k].val.modelId # modelId
       /\ calls[i] = 1 /\ ~fullItems[i].cached
       /\ calls[j] = 1 /\ ~fullItems[j].cached

\* C4: the scheduler runs min(concurrency, tasks) workers, and the tasks
\* started and not yet resolved never exceed the concurrency limit.
TasksStarted == SumOver(calls, DOMAIN calls)
TasksResolved == Cardinality({i \in DOMAIN poolItems : poolItems[i] # NoItem})
C4_AtMostLimitInFlight ==
  pc = "execute" =>
    /\ Len(workers) = Min(args.concurrency, Len(missing))
    /\ TasksStarted - TasksResolved <= args.concurrency
    /\ TasksStarted - TasksResolved = Cardinality({w \in DOMAIN workers : workers[w] # 0})

\* C4 witness: more tasks than the limit, the limit's worth of them in flight
\* and one already resolved.
C4_Witness ==
  /\ pc = "execute"
  /\ Len(missing) > args.concurrency
  /\ TasksResolved > 0
  /\ TasksStarted - TasksResolved = args.concurrency

\* C5: when the scheduler has returned, results[i] and the items array of
\* evaluateModelExamples hold at index i the outcome of tasks[i], the task of
\* the i-th miss.
C5_ResultsIndexAligned ==
  (AfterExecute /\ Len(missing) > 0) =>
    \A i \in DOMAIN missing :
      LET ex == examples[missing[i].idx]
      IN /\ results[i] # NoItem
         /\ results[i].datasetId = ex.id
         /\ results[i].claim = ex.claim
         /\ results[i].goldLabel = ex.label
         /\ poolItems[i] = results[i]

\* C5 witness: the scheduler returned after two tasks completed in the
\* reverse of their input order.
C5_Witness ==
  /\ pc = "persist"
  /\ Len(missing) >= 2
  /\ \E p, q \in ItemEventPositions :
       /\ p < q
       /\ ~events[p].item.cached /\ ~events[q].item.cached
       /\ events[p].index > events[q].index

\* C6: the progress events of a model are one modelStart, then totalExamples
\* modelItem events, then one modelDone, and a model emits nothing before
\* every earlier model of the run has saved its cache and emitted modelDone.
ModelPattern(n) ==
  [k \in 1..(n + 3) |->
     IF k = 1 THEN "modelStart"
     ELSE IF k <= n + 1 THEN "modelItem"
     ELSE IF k = n + 2 THEN "save" ELSE "modelDone"]
TraceOf(b) == SelectSeq(trace, LAMBDA t : t.model = b)
TraceModels == {trace[k].model : k \in DOMAIN trace}
C6_EventProtocol ==
  /\ \A k \in DOMAIN events :
       /\ events[k].model = events[1].model
       /\ events[k].type =
            IF k = 1 THEN "modelStart"
            ELSE IF k <= events[1].totalExamples + 1 THEN "modelItem" ELSE "modelDone"
       /\ k <= events[1].totalExamples + 2
  /\ \A k \in DOMAIN events : IsItemEvent(events[k]) => events[k].totalExamples = Len(examples)
  /\ \A b \in TraceModels :
       LET t == TraceOf(b)
           pattern == ModelPattern(Len(examples))
       IN /\ Len(t) <= Len(pattern)
          /\ \A k \in DOMAIN t : t[k].type = pattern[k]
          /\ (\E later \in TraceModels : later > b) => Len(t) = Len(pattern)
  /\ \A p \in DOMAIN trace : p > 1 => trace[p - 1].model <= trace[p].model

\* C6 witness: a run of two models that reached its end, the second model's
\* events following the first model's save and modelDone.
C6_Witness ==
  /\ pc = "done"
  /\ Len(args.models) = 2
  /\ Len(examples) = MaxExamples
  /\ Len(trace) = 2 * (MaxExamples + 3)
  /\ Len(events) = MaxExamples + 2

\* C7: the completed fields of a model's successive modelItem events are
\* 1, 2, ..., totalExamples, through Replay and Execute alike.
C7_CompletedCountsUp ==
  /\ \A k \in ItemEventPositions :
       events[k].completed =
         IF k - 1 \in ItemEventPositions THEN events[k - 1].completed + 1 ELSE 1
  /\ \A k \in DOMAIN events :
       (events[k].type = "modelDone" /\ k > 1 /\ IsItemEvent(events[k - 1]))
         => events[k - 1].completed = events[1].totalExamples

\* C7 witness: a finished model whose first modelItem came from Replay and
\* whose last came from Execute.
C7_Witness ==
  /\ Len(events) > 3
  /\ events[Len(events)].type = "modelDone"
  /\ events[2].item.cached
  /\ ~events[Len(events) - 1].item.cached
  /\ events[Len(events) - 1].completed = Len(examples)

\* C8: the index of every modelItem event is the dataset position of the
\* example its outcome belongs to, no index is used twice, and at modelDone
\* every dataset index has had its event.
C8_EventIndexIsDatasetIndex ==
  /\ \A k \in ItemEventPositions :
       /\ events[k].index \in DOMAIN examples
       /\ events[k].item.datasetId = examples[events[k].index].id
       /\ events[k].item.claim = examples[events[k].index].claim
  /\ \A k, l \in ItemEventPositions : events[k].index = events[l].index => k = l
  /\ (events # <<>> /\ events[Len(events)].type = "modelDone")
       => {events[k].index : k \in ItemEventPositions} = DOMAIN examples

\* C8 witness: a freshly computed outcome whose position in the miss list is
\* not its dataset position has had its event.
C8_Witness ==
  \E l \in DOMAIN missing, k \in ItemEventPositions :
    /\ InModel
    /\ missing[l].idx # l
    /\ ~events[k].item.cached
    /\ events[k].index = missing[l].idx

\* C9: the ok flag of a computed outcome is true exactly when the provider
\* call completed without an error, whatever label was predicted.
C9_OkIffCallSucceeded ==
  \A i \in DOMAIN fullItems :
    (fullItems[i] # NoItem /\ ~fullItems[i].cached)
      => (fullItems[i].ok <=> "error" \notin DOMAIN fullItems[i])

\* C10: a rejected provider call makes the task return an outcome with
\* ok = false, predictedLabel = INVALID and the error message; folding it is
\* one increment of the invalid counter and of nothing else, and the run does
\* not fail.
RejectedResponses == {r \in Responses : r.kind = "reject"}
C10_RejectionIsInvalidOutcome ==
  [][\A w \in DOMAIN workers, response \in RejectedResponses, latencyMs \in Latencies :
       Complete(w, response, latencyMs) =>
         LET item == fullItems'[missing[workers[w]].idx]
         IN /\ item # NoItem
            /\ ~item.ok
            /\ item.predictedLabel = "INVALID"
            /\ "error" \in DOMAIN item /\ item.error = response.message
            /\ cm'.invalid = cm.invalid + 1
            /\ cm'.cells = cm.cells
            /\ completed' = completed + 1
            /\ pc' \in {"execute", "persist"}]_vars

\* C10 witness: a model's outcome of a rejected call was folded and the run
\* went on to reach its end through a later example's provider call.
C10_Witness ==
  /\ pc = "done"
  /\ cm.invalid > 0
  /\ \E p, q \in ItemEventPositions :
       /\ p < q
       /\ "error" \in DOMAIN events[p].item
       /\ ~events[q].item.cached

\* C11: when a completed run of a model that started from an empty cache is
\* repeated on the same dataset, the second run issues no provider call, every
\* example is a cache hit, and its confusion matrix, correct, total, invalid,
\* accuracy and invalidRate are those the first run reported.
ModelDoneEmitted == events # <<>> /\ events[Len(events)].type = "modelDone"
C11_SecondRunAllHits ==
  runNo = 2 =>
    /\ prev.done
    /\ issued = 0
    /\ InModel =>
         /\ missing = <<>>
         /\ \A i \in DOMAIN fullItems : fullItems[i] # NoItem /\ fullItems[i].cached
    /\ (AfterExecute \/ ModelDoneEmitted) =>
         /\ cm = prev.confusion
         /\ summaryOf(cm) = prev.numbers
    /\ ModelDoneEmitted => events[Len(events)].summary = prev.numbers

\* C11 witness: the second run reached its end without a provider call, on
\* outcomes of which the first run counted one in a cell and one as invalid.
C11_Witness ==
  /\ runNo = 2
  /\ pc = "done"
  /\ issued = 0
  /\ Len(examples) = MaxExamples
  /\ cm.invalid > 0
  /\ CellTotal(cm) > 0
  /\ ModelDoneEmitted

\* C12: after a model's Persist the saved file holds, for every example of
\* the dataset, an entry under the example's id with the current model id and
\* the hash of the current example, for hits and for freshly computed outcomes
\* alike; an entry that was stale has been overwritten.
SavedMap == loadModelCache(files[getModelCachePath(modelId)], "ok").map
C12_PersistCoversDataset ==
  pc = "finalize" =>
    /\ files[getModelCachePath(modelId)].exists
    /\ \A i \in DOMAIN examples :
         LET exId == exampleIdToString(examples[i].id)
         IN /\ MapHas(SavedMap, exId)
            /\ MapGet(SavedMap, exId).modelId = modelId
            /\ MapGet(SavedMap, exId).exampleHash = computeExampleHash(examples[i])
            /\ MapGet(SavedMap, exId).item.goldLabel = examples[i].label
            /\ MapGet(SavedMap, exId).item.claim = examples[i].claim

\* C12 witness: a second run on the edited dataset has saved; the second
\* example was a hit, so the first run had stored both examples, and the first
\* example, whose stored entry was stale, was computed again.
C12_Witness ==
  /\ pc = "finalize"
  /\ runNo = 2
  /\ Len(args.models) = 1
  /\ args.file = DatasetEdited
  /\ Len(fullItems) >= 2
  /\ ~fullItems[1].cached
  /\ fullItems[2].cached

\* C13: whenever an observer reads the summary carried by a modelItem or a
\* modelDone event of the model, its total, correct, invalid, accuracy and
\* invalidRate are the values derived from the matrix that summary carries.
C13_SummaryMatchesItsMatrix ==
  \A k \in DOMAIN events :
    /\ events[k].type = "modelItem" =>
         events[k].summarySoFar = summaryOf(ConfusionOf(events[k]))
    /\ events[k].type = "modelDone" =>
         events[k].summary = summaryOf(ConfusionOf(events[k]))

\* C14: at modelDone the summary's item list has an outcome at every dataset
\* index, with the id and the gold label of the example at that index; the
\* summary's total is the dataset size; and its matrix counts the outcomes of
\* this model and nothing else.
DoneEvent == events[Len(events)]
C14_ModelDoneIsComplete ==
  ModelDoneEmitted =>
    /\ Len(DoneEvent.items) = Len(examples)
    /\ \A i \in DOMAIN examples :
         /\ DoneEvent.items[i] # NoItem
         /\ DoneEvent.items[i].datasetId = examples[i].id
         /\ DoneEvent.items[i].goldLabel = examples[i].label
    /\ DoneEvent.summary.total = Len(examples)
    /\ \A g, p \in FeverLabel :
         ConfusionOf(DoneEvent).cells[g][p] =
           Cardinality({i \in DOMAIN examples :
                          /\ DoneEvent.items[i].goldLabel = g
                          /\ DoneEvent.items[i].predictedLabel = p})
    /\ ConfusionOf(DoneEvent).invalid =
         Cardinality({i \in DOMAIN examples : DoneEvent.items[i].predictedLabel = "INVALID"})

\* C14 witness: the second model of a run has emitted modelDone for a dataset
\* of the largest size, after the first model counted outcomes of its own.
C14_Witness ==
  /\ ModelDoneEmitted
  /\ DoneEvent.model = 2
  /\ Len(examples) = MaxExamples
  /\ DoneEvent.summary.total = MaxExamples
  /\ \E k \in DOMAIN trace : trace[k] = [type |-> "modelItem", model |-> 1]

\* C15: when the run has aborted with a fatal error, a malformed dataset or
\* an existing cache file that cannot be read, no provider call was issued in
\* the run before the abort, however many models are configured.
C15_NoCallBeforeFatalError ==
  (pc = "failed" /\ appState.error \in {"input", "cacheRead"}) => issued = 0

\* C16: once the cancellation flag is set, a model whose loop iteration has
\* not begun is never started: from the top of the loop, and from before the
\* loop, the run only stops (or fails on its input), with no cache load, no
\* modelStart event and no provider call.
C16_NoModelStartsAfterCancel ==
  [][(cancelled /\ pc \in {"start", "modelCheck", "stopped"} /\ runNo' = runNo) =>
       /\ pc' = IF pc = "start" /\ ~loadExamples(args.file, args.limit).ok
                THEN "failed" ELSE "stopped"
       /\ cancelled'
       /\ UNCHANGED <<m, cacheMap, events, trace, issued, calls, files>>]_vars

\* C16 witness: the run stopped at the top of the loop with models left; the
\* first model finished, the second has no event.
C16_Witness ==
  /\ pc = "stopped"
  /\ cancelled
  /\ m = 2
  /\ Len(args.models) = 2
  /\ issued > 0
  /\ \E k \in DOMAIN trace : trace[k] = [type |-> "modelDone", model |-> 1]
  /\ \A k \in DOMAIN trace : trace[k].model = 1

\* C17: loadModelCache gives the empty map for a file that does not exist;
\* for a file it can read it never fails, whatever the lines are, and gives
\* exactly one entry per exampleId of the well-formed lines (version 1 and a
\* non-empty exampleId), the entry of the last such line with that id.
WellFormed(line) ==
  /\ line.kind = "json"
  /\ line.value # JsonNull
  /\ line.value.v = 1
  /\ line.value.exampleId # ""
LastWellFormed(lines, id) ==
  CHOOSE k \in DOMAIN lines :
    /\ WellFormed(lines[k]) /\ lines[k].value.exampleId = id
    /\ \A j \in DOMAIN lines :
         (WellFormed(lines[j]) /\ lines[j].value.exampleId = id) => j <= k
C17_LoadKeepsWellFormedLines ==
  LET file == files[CachePath]
      ids == {file.lines[k].value.exampleId :
                k \in {j \in DOMAIN file.lines : WellFormed(file.lines[j])}}
  IN /\ pc = "cacheFile" =>
          \A readOutcome \in {"ok", "ENOENT"} : ~loadModelCache(file, readOutcome).threw
     /\ pc = "cacheLoaded" =>
          /\ ~file.exists => cacheMap = <<>>
          /\ file.exists =>
               /\ {cacheMap[k].key : k \in DOMAIN cacheMap} = ids
               /\ Len(cacheMap) = Cardinality(ids)
               /\ \A k \in DOMAIN cacheMap :
                    cacheMap[k].val = file.lines[LastWellFormed(file.lines, cacheMap[k].key)].value

\* C17 witness: a file with an entry, then text that is not JSON, then a later
\* entry under the same id was loaded.
C17_Witness ==
  /\ pc = "cacheLoaded"
  /\ files[CachePath].exists
  /\ files[CachePath].lines =
       <<JSONStringify(EntryFirst), GarbageLine, JSONStringify(EntryFirstEdited)>>
  /\ Len(cacheMap) = 1
  /\ cacheMap[1].val = EntryFirstEdited

C18_StoreFailuresAbortTheRun ==
  [][LET path == getModelCachePath(modelId)
         file == files[path]
     IN /\ pc = "loadCache" =>
             \A readOutcome \in ReadOutcomes(file) \ {"ok", "ENOENT"} :
               loadModelCache(file, readOutcome).threw
        /\ (pc = "loadCache" /\ pc' # pc) =>
             \/ /\ pc' = "failed"
                /\ file.exists
                /\ ~cancelled => (appState'.done /\ appState'.error = "cacheRead")
                /\ UNCHANGED <<m, cacheMap, events, calls, issued, files, trace>>
             \/ /\ pc' = "replay"
                /\ cacheMap' = IF file.exists THEN LoadLines(file.lines, <<>>) ELSE <<>>
        /\ pc = "persist" =>
             \A writeOutcome \in WriteOutcomes \ {"ok"} :
               saveModelCache(file, cacheMap, writeOutcome).threw
        /\ (pc = "persist" /\ pc' # pc) =>
             \/ /\ pc' = "failed"
                /\ ~cancelled => (appState'.done /\ appState'.error = "cacheWrite")
                /\ UNCHANGED <<m, events, calls, issued, files>>
             \/ /\ pc' = "finalize"
                /\ files'[path] = saveModelCache(file, cacheMap', "ok").file
        /\ (pc = "failed" /\ runNo' = runNo) =>
             UNCHANGED <<pc, m, events, calls, issued, files, trace, appState>>
    ]_vars

\* C18 witness: the run has failed on the read of a cache file that exists and
\* holds entries.
C18_Witness ==
  /\ pc = "failed"
  /\ ~cancelled
  /\ appState.error = "cacheRead"
  /\ files[getModelCachePath(modelId)].exists
  /\ LoadLines(files[getModelCachePath(modelId)].lines, <<>>) # <<>>
  /\ cacheMap = <<>>

\* C19: a run that has started ends: it reaches done, unless it was cancelled
\* or a file could not be read or written (the dataset, a cache file), and it
\* never ends on a provider failure.  At done every configured model has
\* emitted its modelDone.
IOErrors == {"input", "cacheRead", "cacheWrite"}
OffDiagonal(matrix) ==
  SumOver([pair \in FeverLabel \X FeverLabel |-> matrix.cells[pair[1]][pair[2]]],
          {pair \in FeverLabel \X FeverLabel : pair[1] # pair[2]})
InUnitInterval(ratio) == ratio[2] > 0 /\ 0 <= ratio[1] /\ ratio[1] <= ratio[2]
C21_SummaryNumbersAreConsistent ==
  (pc = "helpers" /\ ~probe.applied) =>
    LET s == summaryOf(cm)
    IN /\ s.total = completed
       /\ s.correct + OffDiagonal(cm) + s.invalid = s.total
       /\ 0 <= s.correct /\ s.correct <= s.total
       /\ 0 <= s.invalid /\ s.invalid <= s.total
       /\ InUnitInterval(s.accuracy) /\ InUnitInterval(s.invalidRate)
       /\ s.accuracy = Ratio(s.correct, s.total)
       /\ s.invalidRate = Ratio(s.invalid, s.total)
       /\ cm = createConfusionMatrix => (s.accuracy[1] = 0 /\ s.invalidRate[1] = 0)

\* C21 witness: a matrix holding a correct, a wrong and an invalid outcome.
C21_Witness ==
  /\ pc = "helpers"
  /\ completed = 3
  /\ correctFromConfusionMatrix(cm) = 1
  /\ OffDiagonal(cm) = 1
  /\ cm.invalid = 1

\* C22: normalizePredictedLabel gives the trimmed input when that is exactly
\* one of the three labels; otherwise the label of the first rule, in the
\* documented order, that the trimmed input in upper case satisfies; and
\* INVALID when it satisfies none, as the empty text does.
NormalizerRules ==
  << [equals |-> TRUE, texts |-> {TxtNEIShort, TxtNEIUnderscore, TxtNEIJoined},
      label |-> "NOT ENOUGH INFO"],
     [equals |-> FALSE, texts |-> {TxtNEI, TxtNEIUnderscore}, label |-> "NOT ENOUGH INFO"],
     [equals |-> FALSE, texts |-> {TxtSUPPORTS}, label |-> "SUPPORTS"],
     [equals |-> FALSE, texts |-> {TxtREFUTES}, label |-> "REFUTES"],
     [equals |-> FALSE, texts |-> {TxtSUPPORTED}, label |-> "SUPPORTS"],
     [equals |-> FALSE, texts |-> {TxtREFUTED}, label |-> "REFUTES"] >>
RuleApplies(rule, u) ==
  IF rule.equals THEN u \in rule.texts ELSE \E t \in rule.texts : Includes(u, t)
C22_NormalizerFollowsRuleOrder ==
  probe.applied =>
    LET t == Trim(probe.raw)
        u == ToUpperCase(t)
        matching == {k \in DOMAIN NormalizerRules : RuleApplies(NormalizerRules[k], u)}
    IN /\ t \in {TxtSUPPORTS, TxtREFUTES, TxtNEI} => probe.label = LabelOfText(t)
       /\ (t \notin {TxtSUPPORTS, TxtREFUTES, TxtNEI} /\ matching # {}) =>
            \E k \in matching :
              /\ \A j \in matching : k <= j
              /\ probe.label = NormalizerRules[k].label
       /\ (t \notin {TxtSUPPORTS, TxtREFUTES, TxtNEI} /\ matching = {}) =>
            probe.label = "INVALID"
       /\ t = <<>> => probe.label = "INVALID"

\* C22 witness: a text holding REFUTES and then SUPPORTED, which the fourth
\* rule decides before the fifth is tried.
C22_Witness ==
  /\ probe.applied
  /\ probe.raw = ToLowerCase(TxtREFUTES) \o <<" ">> \o TxtSUPPORTED \o <<".">>
  /\ probe.label = "REFUTES"

\* C23: the modelItem events of a model's cache hits come in increasing
\* dataset order and before every modelItem event of a computed outcome; while
\* the replay loop runs no provider call of the model has been made, and when
\* the loop is left every hit has had its event.
HitEvents == {k \in ItemEventPositions : events[k].index \notin MissIndices}
C23_ReplayBeforeExecute ==
  /\ \A k, l \in HitEvents : k < l => events[k].index < events[l].index
  /\ \A k \in HitEvents, l \in ItemEventPositions \ HitEvents : k < l
  /\ pc = "replay" => \A i \in DOMAIN calls : calls[i] = 0
  /\ pc \in {"execute", "persist", "finalize"} =>
       {events[k].index : k \in HitEvents} = DOMAIN examples \ MissIndices

\* C23 witness: the hit at the second dataset position had its event before
\* the computed outcome of the first position had its own.
C23_Witness ==
  /\ InModel
  /\ Len(events) = 3
  /\ events[2].type = "modelItem" /\ events[2].index = 2 /\ 2 \notin MissIndices
  /\ events[3].type = "modelItem" /\ events[3].index = 1 /\ 1 \in MissIndices

\* C24: a model's cache is saved at most once, and exactly once before its
\* modelDone; the save comes after the events of all its examples, when every
\* position holds an outcome and every worker of the pool has returned, and
\* before the cache of the next model is loaded.  No save happens while
\* outcomes are still being folded.
SavesOf(b) == {k \in DOMAIN trace : trace[k] = [type |-> "save", model |-> b]}
ItemTagsBefore(b, k) ==
  Cardinality({j \in 1..(k - 1) : trace[j] = [type |-> "modelItem", model |-> b]})
C24_OneSavePerModel ==
  /\ \A b \in TraceModels :
       /\ Cardinality(SavesOf(b)) <= 1
       /\ \A k \in SavesOf(b) :
            /\ ItemTagsBefore(b, k) = Len(examples)
            /\ \A j \in 1..(k - 1) : trace[j] # [type |-> "modelDone", model |-> b]
       /\ (\E k \in DOMAIN trace : trace[k] = [type |-> "modelDone", model |-> b])
            => SavesOf(b) # {}
  /\ pc \in {"replay", "execute", "persist"} => SavesOf(m) = {}
  /\ pc \in {"persist", "finalize"} =>
       /\ \A i \in DOMAIN fullItems : fullItems[i] # NoItem
       /\ \A w \in DOMAIN workers : workers[w] = 0
  /\ pc = "finalize" => SavesOf(m) # {}
  /\ pc = "loadCache" => \A b \in 1..(m - 1) : SavesOf(b) # {}

\* C24 witness: the second model is about to load its cache; the first
\* model's two computed outcomes were followed by its one save.
C24_Witness ==
  /\ pc = "loadCache"
  /\ m = 2
  /\ Len(examples) = 2
  /\ Cardinality(SavesOf(1)) = 1
  /\ issued = 2

\* C25: once the cancellation flag is set, no step of the run folds a further
\* outcome: none adds one to the completed counter and to the confusion
\* matrix.
C25_NoFoldAfterCancel ==
  [][(cancelled /\ runNo' = runNo) =>
       ~(completed' = completed + 1 /\ cm' # cm)]_vars

\* C26: a malformed entry in a readable cache file never fails the run: the
\* run does not end on an error raised by an entry, and from the cache load
\* on every example whose only entries are malformed is a miss.
Malformed(line) ==
  \/ line.kind # "json"
  \/ ~IsLoadable(line.value)
  \/ cacheHitThrows(line.value)
C26_MalformedEntryIsAMiss ==
  /\ pc = "failed" => appState.error # "cacheEntry"
  /\ InModel =>
       \A i \in DOMAIN examples :
         LET lines == files[getModelCachePath(modelId)].lines
             mine == {k \in DOMAIN lines :
                        \/ Malformed(lines[k]) /\ lines[k].kind # "json"
                        \/ lines[k].kind = "json"
                           /\ lines[k].value.exampleId = exampleIdToString(examples[i].id)}
         IN (SavesOf(m) = {} /\ mine # {} /\ \A k \in mine : Malformed(lines[k]))
              => i \in MissIndices

\* C27: a save never changes a stored outcome whose example and model are
\* unchanged: an entry that the file held before the save, and that the file
\* holds after it for the same model and the same example hash, has an item
\* equal in every field other than cached and exampleHash.
EntriesOf(file) == LoadLines(file.lines, <<>>)
C27_StoredOutcomeIsFrozen ==
  [][\A p \in CachePaths :
       LET old == EntriesOf(files[p])
           new == EntriesOf(files'[p])
       IN \A k \in DOMAIN old :
            (/\ MapHas(new, old[k].key)
             /\ MapGet(new, old[k].key).modelId = old[k].val.modelId
             /\ MapGet(new, old[k].key).exampleHash = old[k].val.exampleHash)
            => \A f \in DOMAIN old[k].val.item \ {"cached", "exampleHash"} :
                 /\ f \in DOMAIN MapGet(new, old[k].key).item
                 /\ MapGet(new, old[k].key).item[f] = old[k].val.item[f]
    ]_vars

\* C28: every outcome in a modelItem event, in the outcome list and in the
\* list a modelDone event carries has cached = true exactly when its position
\* was served from the cache at the partition, and then latencyMs = 0; every
\* other outcome has cached = false and the hash of its example.
FlagsAreRight(item, i) ==
  /\ item.cached <=> i \notin MissIndices
  /\ item.cached => item.latencyMs = 0
  /\ ~item.cached => item.exampleHash = computeExampleHash(examples[i])
C28_CachedFlagTellsTheSource ==
  /\ \A k \in ItemEventPositions : FlagsAreRight(events[k].item, events[k].index)
  /\ InModel => \A i \in DOMAIN fullItems :
                   fullItems[i] # NoItem => FlagsAreRight(fullItems[i], i)
  /\ \A k \in DOMAIN events :
       events[k].type = "modelDone" =>
         \A i \in DOMAIN events[k].items : FlagsAreRight(events[k].items[i], i)

\* C28 witness: a modelDone event whose list holds a replayed outcome and a
\* computed one that took time.
C28_Witness ==
  /\ events # <<>>
  /\ events[Len(events)].type = "modelDone"
  /\ \E i, j \in DOMAIN events[Len(events)].items :
       /\ events[Len(events)].items[i].cached
       /\ ~events[Len(events)].items[j].cached
       /\ events[Len(events)].items[j].latencyMs > 0

\* C29: the save of a model keeps every entry its cache file held under an
\* example id that the current dataset does not have: the file written holds
\* that entry, unchanged, under the same id.
DatasetIds == {exampleIdToString(examples[i].id) : i \in DOMAIN examples}
C29_PersistKeepsOtherEntries ==
  [][(pc = "persist" /\ pc' = "finalize") =>
       LET p == getModelCachePath(modelId)
           old == EntriesOf(files[p])
           new == EntriesOf(files'[p])
       IN \A k \in DOMAIN old :
            old[k].key \notin DatasetIds =>
              /\ MapHas(new, old[k].key)
              /\ MapGet(new, old[k].key) = old[k].val
    ]_vars

\* C29 witness: a run limited to the first example has saved, and the file
\* still holds the entry of the second example from the run before.
C29_Witness ==
  /\ pc = "finalize"
  /\ runNo = 2
  /\ Len(examples) = 1
  /\ MapHas(SavedMap, "2")
  /\ MapHas(SavedMap, "1")

\* C30: different model ids of a run have different cache files, and the save
\* of one model leaves the entries stored for every other model in place.
C30_ModelsNeverShareAFile ==
  [][/\ \A i, j \in DOMAIN args.models :
          args.models[i] # args.models[j]
            => getModelCachePath(args.models[i]) # getModelCachePath(args.models[j])
     /\ (pc = "persist" /\ pc' = "finalize") =>
          \A p \in CachePaths :
            LET old == EntriesOf(files[p])
                new == EntriesOf(files'[p])
            IN \A k \in DOMAIN old :
                 old[k].val.modelId # modelId =>
                   /\ MapHas(new, old[k].key)
                   /\ MapGet(new, old[k].key) = old[k].val
    ]_vars

\* Helpers of the statements about the scheduler on its own.
StepsOf(type) == {k \in DOMAIN trace : trace[k].type = type}
StepAt(type, i) == {k \in DOMAIN trace : trace[k] = Step(type, i)}
NoTaskRan == StepsOf("start") = {} /\ events = <<>>

\* C31 as stated: a limit below 1 is clamped to one worker and the call does
\* not fail for it; with zero tasks the call returns an empty array and no
\* task ran and no callback fired.
C31_LimitBelowOneIsClamped ==
  pc # "pool" =>
    /\ args.concurrency < 1 => Len(workers) = 1 /\ StepAt("reject", 0) = {}
    /\ tasks = <<>> => pc = "poolReturned" /\ results = <<>> /\ NoTaskRan

\* C31 amended: a limit below 1 makes the call fail before any task ran or any
\* callback fired; with a limit of at least 1 and zero tasks the call returns
\* an empty array at once, and no task ran and no callback fired.
C31_LimitBelowOneIsRejected ==
  pc # "pool" =>
    /\ args.concurrency < 1 =>
         /\ pc = "poolRejected"
         /\ trace = <<Step("reject", 0)>>
         /\ workers = <<>>
         /\ NoTaskRan
    /\ (args.concurrency >= 1 /\ tasks = <<>>) =>
         /\ pc = "poolReturned"
         /\ trace = <<Step("return", 0)>>
         /\ results = <<>>
         /\ workers = <<0>>
         /\ NoTaskRan

\* C31 witness: the scheduler was called with limit 0 on two tasks and failed.
C31_Witness ==
  /\ args.concurrency = 0
  /\ Len(tasks) = 2
  /\ pc = "poolRejected"

\* C32: once a task has thrown, the call to the scheduler has failed, with the
\* error of the first task that threw, and never returns a result array; the
\* task is not run again, and nothing is stored or reported for it.
C32_TaskErrorFailsTheCall ==
  StepsOf("throw") # {} =>
    /\ pc = "poolRejected"
    /\ StepsOf("return") = {}
    /\ LET first == CHOOSE k \in StepsOf("throw") : \A l \in StepsOf("throw") : k <= l
       IN /\ first < Len(trace)
          /\ trace[first + 1] = Step("reject", trace[first].index)
          /\ StepsOf("reject") = {first + 1}
    /\ \A i \in DOMAIN tasks :
         StepAt("throw", i) # {} =>
           /\ calls[i] = 1
           /\ results[i] = NoItem
           /\ StepAt("onItem", i) = {}

\* C32 witness: of three tasks the first resolved and the second threw.
C32_Witness ==
  /\ Len(tasks) = 3
  /\ StepAt("onItem", 1) # {}
  /\ StepAt("throw", 2) # {}
  /\ pc = "poolRejected"

\* The indices of the steps of one type, in trace order.
IndicesOf(type) ==
  LET sel == SelectSeq(trace, LAMBDA s : s.type = type)
  IN [k \in DOMAIN sel |-> sel[k].index]

\* C33: with limit 1 at most one task is in flight, the tasks are started in
\* input order 1, 2, 3, ..., each after the callback of the one before it, and
\* the callbacks fire for 1, 2, 3, ... in input order.
C33_LimitOneRunsInInputOrder ==
  (args.concurrency = 1 /\ pc # "pool") =>
    /\ Cardinality({w \in DOMAIN workers : workers[w] # 0}) <= 1
    /\ IndicesOf("start") = [k \in 1..Len(IndicesOf("start")) |-> k]
    /\ IndicesOf("onItem") = [k \in 1..Len(events) |-> k]
    /\ [k \in DOMAIN events |-> events[k].index] = [k \in 1..Len(events) |-> k]
    /\ \A i \in DOMAIN tasks :
         (i > 1 /\ StepAt("start", i) # {}) =>
           \E a \in StepAt("onItem", i - 1) : \A b \in StepAt("start", i) : a < b

\* C33 witness: three tasks ran under limit 1 and the call returned.
C33_Witness ==
  /\ args.concurrency = 1
  /\ Len(tasks) = 3
  /\ pc = "poolReturned"
  /\ Len(events) = 3

\* the tasks that never settle
Hanging == {i \in DOMAIN tasks : tasks[i] = "hangs"}

\* C34: when fewer tasks hang than there are workers, every other task is
\* eventually started and completed and its callback fired, unless a task
\* throws; and with a limit of at least the task count every task is started
\* by the call itself, before any callback.
C34_NoHeadOfLineBlocking ==
  /\ (pc = "poolRunning" /\ Cardinality(Hanging) < Min(args.concurrency, Len(tasks)))
       ~> (\/ StepsOf("throw") # {}
           \/ /\ DOMAIN results = DOMAIN tasks
              /\ \A i \in DOMAIN tasks \ Hanging :
                   /\ calls[i] = 1
                   /\ results[i] = TaskValue(i)
                   /\ StepAt("onItem", i) # {})
  /\ [][(pc = "pool" /\ args.concurrency >= 1 /\ args.concurrency >= Len(tasks)) =>
          /\ \A i \in DOMAIN tasks : calls'[i] = 1
          /\ events' = <<>>]_vars

\* C34 witness: the first of three tasks hangs, and the second worker has run
\* the other two.
C34_Witness ==
  /\ tasks = <<"hangs", "settles", "settles">>
  /\ args.concurrency = 2
  /\ pc = "poolRunning"
  /\ workers[1] = 1
  /\ StepAt("onItem", 2) # {}
  /\ StepAt("onItem", 3) # {}

\* C35: a call recordPrediction(cm, gold, pred) adds one to the invalid counter
\* when pred is INVALID and to cell (gold, pred) otherwise, and every other
\* cell and counter keeps its value.
C35_RecordChangesOneCounter ==
  [][(pc = "helpers" /\ completed' = completed + 1) =>
       LET call == events'[Len(events')]
           hit(g, p) == call.pred # "INVALID" /\ g = call.gold /\ p = call.pred
       IN /\ DOMAIN cm' = DOMAIN cm
          /\ cm'.invalid = cm.invalid + (IF call.pred = "INVALID" THEN 1 ELSE 0)
          /\ \A g, p \in FeverLabel :
               cm'.cells[g][p] = cm.cells[g][p] + (IF hit(g, p) THEN 1 ELSE 0)
    ]_vars

\* C35 witness: REFUTES was recorded against gold SUPPORTS after an INVALID.
C35_Witness ==
  /\ pc = "helpers"
  /\ Len(events) = 2
  /\ events[1].pred = "INVALID"
  /\ events[2] = [gold |-> "SUPPORTS", pred |-> "REFUTES"]
  /\ cm.invalid = 1
  /\ cm.cells["SUPPORTS"]["REFUTES"] = 1

\* C36: every task index is claimed at most once and held by at most one
\* worker; its callback fires at most once, after its value was stored at its
\* index and before the call returns; and when the call has returned, every
\* task was started once and reported once.
C36_EachTaskRunsOnce ==
  DOMAIN calls = DOMAIN tasks =>
    \A i \in DOMAIN tasks :
      /\ calls[i] <= 1
      /\ Cardinality(StepAt("start", i)) = calls[i]
      /\ Cardinality({w \in DOMAIN workers : workers[w] = i}) <= 1
      /\ Cardinality(StepAt("onItem", i)) <= 1
      /\ Cardinality({k \in DOMAIN events : events[k].index = i})
           = Cardinality(StepAt("onItem", i))
      /\ \A b \in StepAt("onItem", i) :
           /\ results[i] = TaskValue(i)
           /\ \E s \in StepAt("start", i), a \in StepAt("store", i) : s < a /\ a < b
           /\ \A r \in StepsOf("return") : b < r
      /\ pc = "poolReturned" =>
           /\ calls[i] = 1
           /\ Cardinality(StepAt("onItem", i)) = 1

\* C36 witness: two workers ran three tasks, the second task settling first,
\* and the call returned.
C36_Witness ==
  /\ Len(tasks) = 3
  /\ args.concurrency = 2
  /\ pc = "poolReturned"
  /\ IndicesOf("onItem") = <<2, 1, 3>>

\* The first step a transition adds to the trace.
Added(type) == Len(trace') > Len(trace) /\ trace'[Len(trace) + 1].type = type

\* C37: a task that throws ends the worker that ran it and no other worker;
\* and after the call has failed, a task that resolves is still stored and
\* reported through onItem, and its worker claims and starts the next task
\* when one is left.
C37_OtherWorkersCarryOn ==
  [][/\ Added("throw") =>
          LET i == trace'[Len(trace) + 1].index
          IN \A w \in DOMAIN workers :
               workers'[w] = IF workers[w] = i THEN 0 ELSE workers[w]
     /\ (pc = "poolRejected" /\ Added("store")) =>
          LET i == trace'[Len(trace) + 1].index
          IN /\ pc' = "poolRejected"
             /\ results'[i] = TaskValue(i)
             /\ events' = Append(events, [index |-> i, value |-> TaskValue(i)])
             /\ next <= Len(tasks) =>
                  /\ calls'[next] = 1
                  /\ \E w \in DOMAIN workers : workers[w] = i /\ workers'[w] = next
    ]_vars

\* C37 witness: with two workers the second task threw and failed the call;
\* after that the first task resolved, its callback fired and its worker
\* started the third task.
C37_Witness ==
  /\ args.concurrency = 2
  /\ Len(tasks) = 3
  /\ pc = "poolRejected"
  /\ \E r \in StepsOf("reject"), c \in StepAt("onItem", 1), s \in StepAt("start", 3) :
       r < c /\ c < s

\* the positions whose outcome is that of a failed provider call
FailedItems ==
  {i \in DOMAIN fullItems :
     /\ "error" \in DOMAIN fullItems[i]
     /\ ~fullItems[i].ok
     /\ fullItems[i].predictedLabel = "INVALID"}

\* C38: after Persist the file holds the outcome of a failed provider call
\* under its example's id, with the model id, the example's hash and the
\* failure; and in the run that repeats the run, each such outcome is served
\* from the cache, failure included, and no provider call is made.
C38_FailedOutcomeIsCached ==
  /\ pc = "finalize" =>
       \A i \in DOMAIN fullItems :
         "error" \in DOMAIN fullItems[i] =>
           LET id == exampleIdToString(examples[i].id)
           IN /\ MapHas(SavedMap, id)
              /\ MapGet(SavedMap, id).modelId = modelId
              /\ MapGet(SavedMap, id).exampleHash = computeExampleHash(examples[i])
              /\ ~MapGet(SavedMap, id).item.ok
              /\ MapGet(SavedMap, id).item.predictedLabel = "INVALID"
              /\ MapGet(SavedMap, id).item.error = fullItems[i].error
  /\ (runNo = 2 /\ InModel) =>
       /\ issued = 0
       /\ \A i \in DOMAIN calls : calls[i] = 0
       /\ \A i \in FailedItems : fullItems[i].cached
       /\ Cardinality(FailedItems) = prev.confusion.invalid

\* C38 witness: the repeated run has replayed two outcomes, the first of them
\* the failed call of the run before, without a provider call.
C38_Witness ==
  /\ runNo = 2
  /\ pc = "persist"
  /\ Len(examples) = 2
  /\ FailedItems = {1}
  /\ fullItems[1].cached
  /\ cm.invalid = 1
  /\ issued = 0

\* C39: a step of the run other than the Persist of model k leaves the cache
\* file of model k as it is, for every model k of the run; so until that
\* model's Persist its file is what it was before the run.
C39_FileWrittenOnlyAtPersist ==
  [][\A k \in DOMAIN args.models :
       ~(pc = "persist" /\ m = k /\ pc' = "finalize") =>
         files'[getModelCachePath(args.models[k])] = files[getModelCachePath(args.models[k])]
    ]_vars

====
